---- MODULE Spec2Model ----
(***************************************************************************)
(* RestoBot (src/main.py): the owner-command interpreter, the availability *)
(* record it drives, the dashboard writes, the prompt projector and the    *)
(* webhook message pipeline.                                               *)
(*                                                                         *)
(* A Python str is a sequence of one-character strings.  The two accented  *)
(* letters the program matches on are written as the atoms EACUTE (U+00C9) *)
(* and eacute (U+00E9).                                                    *)
(***************************************************************************)
EXTENDS Integers, Sequences, FiniteSets, TLC

EACUTE == "E-acute"
eacute == "e-acute"

\* ------------------------------------------------------------------------
\* str methods
\* ------------------------------------------------------------------------
LowerLetters ==
    << "a", "b", "c", "d", "e", "f", "g", "h", "i", "j", "k", "l", "m",
       "n", "o", "p", "q", "r", "s", "t", "u", "v", "w", "x", "y", "z", eacute >>

UpperLetters ==
    << "A", "B", "C", "D", "E", "F", "G", "H", "I", "J", "K", "L", "M",
       "N", "O", "P", "Q", "R", "S", "T", "U", "V", "W", "X", "Y", "Z", EACUTE >>

Whitespace == { " ", "\t", "\n" }

SetMin(S) == CHOOSE x \in S : \A y \in S : x <= y
SetMax(S) == CHOOSE x \in S : \A y \in S : x >= y

\* str.upper() of one character
UpperChar(c) ==
    IF \E i \in 1..Len(LowerLetters) : LowerLetters[i] = c
    THEN UpperLetters[CHOOSE i \in 1..Len(LowerLetters) : LowerLetters[i] = c]
    ELSE c

\* str.upper()
Upper(s) == [i \in 1..Len(s) |-> UpperChar(s[i])]

\* str.strip()
Strip(s) ==
    LET keep == { i \in 1..Len(s) : s[i] \notin Whitespace }
    IN  IF keep = {} THEN << >> ELSE SubSeq(s, SetMin(keep), SetMax(keep))

\* s[n:]
SliceFrom(s, n) == SubSeq(s, n + 1, Len(s))

\* str.startswith(p)
StartsWith(s, p) == Len(s) >= Len(p) /\ SubSeq(s, 1, Len(p)) = p

\* str.find(p): the 1-based index of the first occurrence, 0 when absent
Find(s, p) ==
    LET at == { i \in 1..(Len(s) - Len(p) + 1) : SubSeq(s, i, i + Len(p) - 1) = p }
    IN  IF at = {} THEN 0 ELSE SetMin(at)

\* p in s
Contains(s, p) == Find(s, p) # 0

\* str.replace(old, ""): every non-overlapping occurrence, left to right
RECURSIVE Remove(_, _)
Remove(s, old) ==
    LET i == Find(s, old)
    IN  IF i = 0 THEN s
        ELSE SubSeq(s, 1, i - 1) \o Remove(SubSeq(s, i + Len(old), Len(s)), old)

\* str.split(sep): the list of all parts
RECURSIVE Split(_, _)
Split(s, sep) ==
    LET i == Find(s, sep)
    IN  IF i = 0 THEN << s >>
        ELSE << SubSeq(s, 1, i - 1) >> \o Split(SubSeq(s, i + Len(sep), Len(s)), sep)

\* ", ".join(parts)
RECURSIVE Join(_)
Join(parts) ==
    IF parts = << >> THEN << >>
    ELSE IF Len(parts) = 1 THEN parts[1]
    ELSE parts[1] \o << ",", " " >> \o Join(Tail(parts))

\* a < b on str: lexicographic on code points (only "-" and the digits occur in
\* the strings the program compares)
CodePoint(c) ==
    CASE c = "-" -> 45
      [] c = "/" -> 47
      [] c = "0" -> 48 [] c = "1" -> 49 [] c = "2" -> 50 [] c = "3" -> 51
      [] c = "4" -> 52 [] c = "5" -> 53 [] c = "6" -> 54 [] c = "7" -> 55
      [] c = "8" -> 56 [] c = "9" -> 57
      [] OTHER -> 65

RECURSIVE StrLess(_, _)
StrLess(a, b) ==
    IF b = << >> THEN FALSE
    ELSE IF a = << >> THEN TRUE
    ELSE IF CodePoint(a[1]) # CodePoint(b[1]) THEN CodePoint(a[1]) < CodePoint(b[1])
    ELSE StrLess(Tail(a), Tail(b))

\* ------------------------------------------------------------------------
\* datetime
\* ------------------------------------------------------------------------
Digits == << "0", "1", "2", "3", "4", "5", "6", "7", "8", "9" >>

IsDigit(c) == \E i \in 1..10 : Digits[i] = c
DigitVal(c) == (CHOOSE i \in 1..10 : Digits[i] = c) - 1
DigitChar(n) == Digits[n + 1]

IsLeap(y) == (y % 4 = 0 /\ y % 100 # 0) \/ y % 400 = 0

DaysInMonth(y, m) ==
    IF m = 2 THEN (IF IsLeap(y) THEN 29 ELSE 28)
    ELSE IF m \in {4, 6, 9, 11} THEN 30 ELSE 31

\* the check of the date constructor
ValidDate(y, m, d) == m \in 1..12 /\ d >= 1 /\ d <= DaysInMonth(y, m)

MkDate(y, m, d) == [year |-> y, month |-> m, day |-> d]

\* date + timedelta(days=1)
NextDate(dt) ==
    IF dt.day < DaysInMonth(dt.year, dt.month) THEN MkDate(dt.year, dt.month, dt.day + 1)
    ELSE IF dt.month < 12 THEN MkDate(dt.year, dt.month + 1, 1)
    ELSE MkDate(dt.year + 1, 1, 1)

\* a <= b on dates
DateLE(a, b) ==
    \/ a.year < b.year
    \/ a.year = b.year /\ a.month < b.month
    \/ a.year = b.year /\ a.month = b.month /\ a.day <= b.day

TwoDigits(n) == << DigitChar((n \div 10) % 10), DigitChar(n % 10) >>
FourDigits(n) == TwoDigits(n \div 100) \o TwoDigits(n % 100)

\* date.isoformat(): YYYY-MM-DD
IsoFormat(dt) == FourDigits(dt.year) \o << "-" >> \o TwoDigits(dt.month) \o << "-" >> \o TwoDigits(dt.day)

\* date.strftime('%d/%m/%Y')
StrfDMY(dt) == TwoDigits(dt.day) \o << "/" >> \o TwoDigits(dt.month) \o << "/" >> \o FourDigits(dt.year)

\* date.strftime('%d/%m')
StrfDM(dt) == TwoDigits(dt.day) \o << "/" >> \o TwoDigits(dt.month)

\* a raised ValueError, in place of the value of the call
ValueError == [ok |-> FALSE, exc |-> "ValueError"]

\* The alternatives of the %d directive, in the order the regular expression
\* tries them: 3[0-1] | [1-2]\d | 0[1-9] | [1-9] | " "[1-9]; each is <<value, length>>.
DayAlternatives(s) ==
    LET two == Len(s) >= 2
        nz(c) == IsDigit(c) /\ c # "0"
    IN  (IF two /\ s[1] = "3" /\ s[2] \in {"0", "1"}
            THEN << << 30 + DigitVal(s[2]), 2 >> >> ELSE << >>)
     \o (IF two /\ s[1] \in {"1", "2"} /\ IsDigit(s[2])
            THEN << << 10 * DigitVal(s[1]) + DigitVal(s[2]), 2 >> >> ELSE << >>)
     \o (IF two /\ s[1] = "0" /\ nz(s[2])
            THEN << << DigitVal(s[2]), 2 >> >> ELSE << >>)
     \o (IF Len(s) >= 1 /\ nz(s[1])
            THEN << << DigitVal(s[1]), 1 >> >> ELSE << >>)
     \o (IF two /\ s[1] = " " /\ nz(s[2])
            THEN << << DigitVal(s[2]), 2 >> >> ELSE << >>)

\* The alternatives of the %m directive: 1[0-2] | 0[1-9] | [1-9]
MonthAlternatives(s) ==
    LET two == Len(s) >= 2
        nz(c) == IsDigit(c) /\ c # "0"
    IN  (IF two /\ s[1] = "1" /\ s[2] \in {"0", "1", "2"}
            THEN << << 10 + DigitVal(s[2]), 2 >> >> ELSE << >>)
     \o (IF two /\ s[1] = "0" /\ nz(s[2])
            THEN << << DigitVal(s[2]), 2 >> >> ELSE << >>)
     \o (IF Len(s) >= 1 /\ nz(s[1])
            THEN << << DigitVal(s[1]), 1 >> >> ELSE << >>)

\* datetime.strptime(s, "%d/%m"): the first way the pattern matches a prefix of
\* s; unconverted data after it, no match, or a day the month does not have in
\* the default year 1900 is a ValueError.
DefaultYear == 1900

Strptime(s) ==
    LET fits(alt) == /\ Len(s) > alt[2]
                     /\ s[alt[2] + 1] = "/"
                     /\ MonthAlternatives(SliceFrom(s, alt[2] + 1)) # << >>
        days == SelectSeq(DayAlternatives(s), fits)
    IN  IF days = << >> THEN ValueError
        ELSE LET d == days[1]
                 m == MonthAlternatives(SliceFrom(s, d[2] + 1))[1]
             IN  IF d[2] + 1 + m[2] # Len(s) THEN ValueError
                 ELSE IF ~ValidDate(DefaultYear, m[1], d[1]) THEN ValueError
                 ELSE [ok |-> TRUE, date |-> MkDate(DefaultYear, m[1], d[1])]

\* datetime.replace(year=y): the constructor check again, in the new year
ReplaceYear(r, y) ==
    IF ~r.ok THEN ValueError
    ELSE IF ~ValidDate(y, r.date.month, r.date.day) THEN ValueError
    ELSE [ok |-> TRUE, date |-> MkDate(y, r.date.month, r.date.day)]


\* ------------------------------------------------------------------------
\* The string literals of handle_owner_command
\* ------------------------------------------------------------------------
AIDE == << "A", "I", "D", "E" >>
HELP == << "H", "E", "L", "P" >>
QUESTION_MARK == << "?" >>
STATUS == << "S", "T", "A", "T", "U", "S" >>
STATS == << "S", "T", "A", "T", "S" >>
COMPLET_CE_SOIR == << "C", "O", "M", "P", "L", "E", "T", " ", "C", "E", " ", "S", "O", "I", "R" >>
COMPLET_SOIR == << "C", "O", "M", "P", "L", "E", "T", " ", "S", "O", "I", "R" >>
FULL_TONIGHT == << "F", "U", "L", "L", " ", "T", "O", "N", "I", "G", "H", "T" >>
COMPLET_MIDI == << "C", "O", "M", "P", "L", "E", "T", " ", "M", "I", "D", "I" >>
COMPLET_CE_MIDI == << "C", "O", "M", "P", "L", "E", "T", " ", "C", "E", " ", "M", "I", "D", "I" >>
FULL_LUNCH == << "F", "U", "L", "L", " ", "L", "U", "N", "C", "H" >>
\* "COMPLET " with its trailing space
COMPLET_SP == << "C", "O", "M", "P", "L", "E", "T", " " >>
FERMEA_AUJOURDHUI == << "F", "E", "R", "M", EACUTE, " ", "A", "U", "J", "O", "U", "R", "D", "'", "H", "U", "I" >>
FERME_AUJOURDHUI == << "F", "E", "R", "M", "E", " ", "A", "U", "J", "O", "U", "R", "D", "'", "H", "U", "I" >>
FERMEA == << "F", "E", "R", "M", EACUTE >>
FERME == << "F", "E", "R", "M", "E" >>
CLOSED_TODAY == << "C", "L", "O", "S", "E", "D", " ", "T", "O", "D", "A", "Y" >>
\* "FERME " with the accent and its trailing space
FERMEA_SP == << "F", "E", "R", "M", EACUTE, " " >>
FERME_SP == << "F", "E", "R", "M", "E", " " >>
AU == << "A", "U" >>
DU == << "D", "U" >>
OUVERT == << "O", "U", "V", "E", "R", "T" >>
OPEN == << "O", "P", "E", "N" >>
NORMAL == << "N", "O", "R", "M", "A", "L" >>
\* "MESSAGE " with its trailing space
MESSAGE_SP == << "M", "E", "S", "S", "A", "G", "E", " " >>
OFF == << "O", "F", "F" >>


\* ------------------------------------------------------------------------
\* handle_owner_command
\* ------------------------------------------------------------------------

\* dict[key] = value
Put(f, k, v) == [x \in (DOMAIN f) \cup {k} |-> IF x = k THEN v ELSE f[x]]

\* parts[1] of a list that has no second element
IndexError == [ok |-> FALSE, exc |-> "IndexError"]

\* (mutant) the prefix COMPLET is tried before the exact phrases
ParseOwnerCommandPrefixFirst(message) ==
    LET msg == Upper(Strip(message))
    IN  IF msg \in {AIDE, HELP, QUESTION_MARK} THEN [kind |-> "help"]
        ELSE IF msg = STATUS THEN [kind |-> "status"]
        ELSE IF msg = STATS THEN [kind |-> "stats"]
        ELSE IF StartsWith(msg, COMPLET_SP) THEN
            LET date_str == Strip(Remove(msg, COMPLET_SP))
            IN  [kind |-> "full_date", d |-> Strptime(date_str)]
        ELSE IF msg \in {COMPLET_CE_SOIR, COMPLET_SOIR, FULL_TONIGHT} THEN [kind |-> "full_tonight"]
        ELSE IF msg \in {COMPLET_MIDI, COMPLET_CE_MIDI, FULL_LUNCH} THEN [kind |-> "full_lunch"]
        ELSE IF msg \in {FERMEA_AUJOURDHUI, FERME_AUJOURDHUI, FERMEA, FERME, CLOSED_TODAY}
            THEN [kind |-> "closed_today"]
        ELSE IF StartsWith(msg, FERMEA_SP) \/ StartsWith(msg, FERME_SP) THEN
            LET date_str == Strip(Remove(Remove(msg, FERMEA_SP), FERME_SP))
            IN  IF Contains(date_str, AU) THEN
                    LET parts == Split(date_str, AU)
                    IN  [kind  |-> "closed_range",
                         start |-> Strptime(Strip(Remove(parts[1], DU))),
                         end   |-> IF Len(parts) < 2 THEN IndexError
                                   ELSE Strptime(Strip(parts[2]))]
                ELSE [kind |-> "closed_date", d |-> Strptime(date_str)]
        ELSE IF msg \in {OUVERT, OPEN, NORMAL} THEN [kind |-> "open"]
        ELSE IF StartsWith(msg, MESSAGE_SP) THEN
            LET text == Strip(SliceFrom(message, 8))
            IN  IF Upper(text) = OFF THEN [kind |-> "message_off"]
                ELSE [kind |-> "message", text |-> text]
        ELSE [kind |-> "none"]

\* The branch of handle_owner_command a message takes, with the values the
\* branch computes from the text alone: the strptime results (still in the
\* default year) and the body of a MESSAGE command.
ParseOwnerCommand(message) ==
    LET msg == Upper(Strip(message))
    IN  IF msg \in {AIDE, HELP, QUESTION_MARK} THEN [kind |-> "help"]
        ELSE IF msg = STATUS THEN [kind |-> "status"]
        ELSE IF msg = STATS THEN [kind |-> "stats"]
        ELSE IF msg \in {COMPLET_CE_SOIR, COMPLET_SOIR, FULL_TONIGHT} THEN [kind |-> "full_tonight"]
        ELSE IF msg \in {COMPLET_MIDI, COMPLET_CE_MIDI, FULL_LUNCH} THEN [kind |-> "full_lunch"]
        ELSE IF StartsWith(msg, COMPLET_SP) THEN
            LET date_str == Strip(Remove(msg, COMPLET_SP))
            IN  [kind |-> "full_date", d |-> Strptime(date_str)]
        ELSE IF msg \in {FERMEA_AUJOURDHUI, FERME_AUJOURDHUI, FERMEA, FERME, CLOSED_TODAY}
            THEN [kind |-> "closed_today"]
        ELSE IF StartsWith(msg, FERMEA_SP) \/ StartsWith(msg, FERME_SP) THEN
            LET date_str == Strip(Remove(Remove(msg, FERMEA_SP), FERME_SP))
            IN  IF Contains(date_str, AU) THEN
                    LET parts == Split(date_str, AU)
                    IN  [kind  |-> "closed_range",
                         start |-> Strptime(Strip(Remove(parts[1], DU))),
                         end   |-> IF Len(parts) < 2 THEN IndexError
                                   ELSE Strptime(Strip(parts[2]))]
                ELSE [kind |-> "closed_date", d |-> Strptime(date_str)]
        ELSE IF msg \in {OUVERT, OPEN, NORMAL} THEN [kind |-> "open"]
        ELSE IF StartsWith(msg, MESSAGE_SP) THEN
            LET text == Strip(SliceFrom(message, 8))
            IN  IF Upper(text) = OFF THEN [kind |-> "message_off"]
                ELSE [kind |-> "message", text |-> text]
        ELSE [kind |-> "none"]


\* The value a handler call ends with: the record and the stats as it leaves
\* them, the returned reply (kind "None" for Python's None) and the exception
\* that left the call, "None" when it returned.
Returned(rs, st, kind, arg) ==
    [rs |-> rs, st |-> st, response |-> [kind |-> kind, arg |-> arg], exc |-> "None"]

Raised(rs, st, exc) ==
    [rs |-> rs, st |-> st, response |-> [kind |-> "None", arg |-> << >>], exc |-> exc]

\* (mutant) the handler names another exception type
ExceptKeyError(rs, st, exc, kind) ==
    IF exc = "KeyError" THEN Returned(rs, st, kind, << >>)
    ELSE Raised(rs, st, exc)

\* try: ... except ValueError: return <reply>.  exc is what the try block
\* raised before it changed anything; any other exception leaves the call.
ExceptValueError(rs, st, exc, kind) ==
    IF exc = "ValueError" THEN Returned(rs, st, kind, << >>)
    ELSE Raised(rs, st, exc)

\* (mutant) the loop stops before the end date
RECURSIVE ClosedRangeExclusive(_, _)
ClosedRangeExclusive(current, end) ==
    IF DateLE(current, end) /\ current # end
    THEN << IsoFormat(current) >> \o ClosedRangeExclusive(NextDate(current), end)
    ELSE << >>

\* (mutant) the test comes after the body: the start date is always appended
RECURSIVE ClosedRangeDoWhile(_, _)
ClosedRangeDoWhile(current, end) ==
    << IsoFormat(current) >> \o
    (IF DateLE(NextDate(current), end) THEN ClosedRangeDoWhile(NextDate(current), end)
     ELSE << >>)

\* current = start; while current <= end: append(current.isoformat()); current += 1 day
RECURSIVE ClosedRange(_, _)
ClosedRange(current, end) ==
    IF DateLE(current, end)
    THEN << IsoFormat(current) >> \o ClosedRange(NextDate(current), end)
    ELSE << >>

\* AIDE / HELP / ?: the static help text (no mutation)
HelpReply(rs, st) ==
    Returned(rs, st, "help", << >>)

\* (mutant) STATUS forgets the temporary message once it has reported it
StatusReplyClearing(rs, st) ==
    Returned([rs EXCEPT !.temp_message = << >>], st, "status",
             << rs.status, rs.temp_message, Join(rs.closed_dates), rs.full_dates >>)

\* STATUS: the reply (no mutation)
StatusReply(rs, st) ==
    Returned(rs, st, "status",
             << rs.status, rs.temp_message, Join(rs.closed_dates), rs.full_dates >>)

\* STATS: the lazy reset of the day's counters, then the reply
StatsReply(rs, st, nconv, tdy) ==
    LET st2 == IF st.last_reset # IsoFormat(tdy)
               THEN [st EXCEPT !.messages_today = 0, !.bookings_today = 0,
                               !.last_reset = IsoFormat(tdy)]
               ELSE st
    IN  Returned(rs, st2, "stats",
                 << st2.messages_today, st2.bookings_today, st2.languages, nconv >>)

\* (mutant) a label already stored for today is kept
SetFullTodayKeepLabel(rs, st, tdy, nw, status, period) ==
    Returned([rs EXCEPT !.status = status,
                        !.full_dates = IF IsoFormat(tdy) \in DOMAIN @ THEN @
                                       ELSE Put(@, IsoFormat(tdy), period),
                        !.updated_at = nw],
             st, status, << >>)

\* COMPLET CE SOIR / COMPLET MIDI
SetFullToday(rs, st, tdy, nw, status, period) ==
    Returned([rs EXCEPT !.status = status,
                        !.full_dates = Put(@, IsoFormat(tdy), period),
                        !.updated_at = nw],
             st, status, << >>)

\* (mutant) storing a full date drops the entries of days before today
SetFullOnDatePruning(rs, st, parsed, tdy, nw) ==
    LET d == ReplaceYear(parsed, tdy.year)
        kept == { k \in DOMAIN rs.full_dates : ~StrLess(k, IsoFormat(tdy)) }
    IN  IF d.ok
        THEN Returned([rs EXCEPT !.full_dates = Put([k \in kept |-> rs.full_dates[k]],
                                                    IsoFormat(d.date), "journee"),
                                 !.updated_at = nw],
                      st, "full_date", StrfDMY(d.date))
        ELSE ExceptValueError(rs, st, d.exc, "full_date_error")

\* COMPLET [date]
SetFullOnDate(rs, st, parsed, tdy, nw) ==
    LET d == ReplaceYear(parsed, tdy.year)
    IN  IF d.ok
        THEN Returned([rs EXCEPT !.full_dates = Put(@, IsoFormat(d.date), "journee"),
                                 !.updated_at = nw],
                      st, "full_date", StrfDMY(d.date))
        ELSE ExceptValueError(rs, st, d.exc, "full_date_error")

\* (mutant) today is appended only when it is not yet in the list
SetClosedTodayDedup(rs, st, tdy, nw) ==
    Returned([rs EXCEPT !.status = "closed_today",
                        !.closed_dates = IF \E i \in 1..Len(@) : @[i] = IsoFormat(tdy)
                                         THEN @ ELSE Append(@, IsoFormat(tdy)),
                        !.updated_at = nw],
             st, "closed_today", << >>)

\* FERME AUJOURD'HUI
SetClosedToday(rs, st, tdy, nw) ==
    Returned([rs EXCEPT !.status = "closed_today",
                        !.closed_dates = Append(@, IsoFormat(tdy)),
                        !.updated_at = nw],
             st, "closed_today", << >>)

\* (mutant) the start date is appended before the end date is parsed
SetClosedRangePartial(rs, st, pstart, pend, tdy, nw) ==
    LET start == ReplaceYear(pstart, tdy.year)
        end   == ReplaceYear(pend, tdy.year)
    IN  IF ~start.ok THEN ExceptValueError(rs, st, start.exc, "closed_range_error")
        ELSE IF ~end.ok
             THEN ExceptValueError([rs EXCEPT !.closed_dates = Append(@, IsoFormat(start.date))],
                                   st, end.exc, "closed_range_error")
        ELSE Returned([rs EXCEPT !.closed_dates = @ \o ClosedRange(start.date, end.date),
                                 !.updated_at = nw],
                      st, "closed_range", << StrfDM(start.date), StrfDM(end.date) >>)

\* FERME DU [date] AU [date]
SetClosedRange(rs, st, pstart, pend, tdy, nw) ==
    LET start == ReplaceYear(pstart, tdy.year)
        end   == ReplaceYear(pend, tdy.year)
    IN  IF ~start.ok THEN ExceptValueError(rs, st, start.exc, "closed_range_error")
        ELSE IF ~end.ok THEN ExceptValueError(rs, st, end.exc, "closed_range_error")
        ELSE Returned([rs EXCEPT !.closed_dates = @ \o ClosedRange(start.date, end.date),
                                 !.updated_at = nw],
                      st, "closed_range", << StrfDM(start.date), StrfDM(end.date) >>)

\* (mutant) closing today's date also sets the quick status
SetClosedOnDateStatus(rs, st, parsed, tdy, nw) ==
    LET d == ReplaceYear(parsed, tdy.year)
    IN  IF d.ok
        THEN Returned([rs EXCEPT !.status = IF d.date = tdy THEN "closed_today" ELSE @,
                                 !.closed_dates = Append(@, IsoFormat(d.date)),
                                 !.updated_at = nw],
                      st, "closed_date", StrfDMY(d.date))
        ELSE ExceptValueError(rs, st, d.exc, "closed_date_error")

\* FERME [date]
SetClosedOnDate(rs, st, parsed, tdy, nw) ==
    LET d == ReplaceYear(parsed, tdy.year)
    IN  IF d.ok
        THEN Returned([rs EXCEPT !.closed_dates = Append(@, IsoFormat(d.date)),
                                 !.updated_at = nw],
                      st, "closed_date", StrfDMY(d.date))
        ELSE ExceptValueError(rs, st, d.exc, "closed_date_error")

\* (mutant) reopening purges today from the closures
SetOpenPurging(rs, st, nw) ==
    Returned([rs EXCEPT !.status = "open", !.closed_dates = << >>, !.updated_at = nw],
             st, "open", << >>)

\* OUVERT
SetOpen(rs, st, nw) ==
    Returned([rs EXCEPT !.status = "open", !.updated_at = nw], st, "open", << >>)

\* MESSAGE OFF
ClearTempMessage(rs, st, nw) ==
    Returned([rs EXCEPT !.temp_message = << >>, !.updated_at = nw], st, "message_off", << >>)

\* (mutant) the upper-cased text is stored
SetTempMessageUpper(rs, st, text, nw) ==
    Returned([rs EXCEPT !.temp_message = Upper(text), !.updated_at = nw], st, "message", text)

\* MESSAGE [texte]
SetTempMessage(rs, st, text, nw) ==
    Returned([rs EXCEPT !.temp_message = text, !.updated_at = nw], st, "message", text)

\* (mutant) a text that is no command is answered with the help text
NotACommandHelp(rs, st) == Returned(rs, st, "help", << >>)

\* return None: not a command
NotACommand(rs, st) == Returned(rs, st, "None", << >>)


\* ------------------------------------------------------------------------
\* The texts the owner sends (the inputs of the model)
\* ------------------------------------------------------------------------
SP == << " " >>

\* day/month tokens that strptime accepts
ValidTokens ==
    { << "2", "8", "/", "0", "2" >>,
      << "0", "1", "/", "0", "3" >>,
      << "1", "/", "3" >> }

\* the leap day: a date of the current year when that year is a leap year
LeapTokens ==
    { << "2", "9", "/", "0", "2" >> }

\* tokens that are no day/month
InvalidTokens ==
    { << "3", "1", "/", "0", "4" >>,
      << "3", "2", "/", "0", "1" >>,
      << "0", "1", "/", "1", "3" >>,
      << "D", "E", "M", "A", "I", "N" >> }

DateTokens == ValidTokens \cup LeapTokens \cup InvalidTokens

\* the fixed phrases, as the source lists them
FixedPhrases ==
    { AIDE, HELP, QUESTION_MARK, STATUS, STATS,
      COMPLET_CE_SOIR, COMPLET_SOIR, FULL_TONIGHT,
      COMPLET_MIDI, COMPLET_CE_MIDI, FULL_LUNCH,
      FERMEA_AUJOURDHUI, FERME_AUJOURDHUI, FERMEA, FERME, CLOSED_TODAY,
      OUVERT, OPEN, NORMAL }

\* fixed phrases in another letter case or with white space around them
CasedPhrases ==
    { << " ", "o", "u", "v", "e", "r", "t", "\n" >>,
      << "F", "e", "r", "m", eacute >>,
      << "c", "o", "m", "p", "l", "e", "t", " ", "c", "e", " ", "s", "o", "i", "r" >>,
      << " ", " ", "S", "t", "a", "t", "u", "s", " " >> }

CompletTexts ==
    { COMPLET_SP \o t : t \in DateTokens }
    \cup { << "c", "o", "m", "p", "l", "e", "t", " ", "0", "1", "/", "0", "3" >>,
           << "C", "O", "M", "P", "L", "E", "T", " ", "C", "O", "M", "P", "L", "E", "T", " ", "2", "8", "/", "0", "2" >>,
           << "C", "O", "M", "P", "L", "E", "T", " ", "F", "E", "R", "M", EACUTE, " ", "0", "1", "/", "0", "3" >> }

FermeTexts ==
    { FERMEA_SP \o t : t \in DateTokens }
    \cup { FERME_SP \o t : t \in {<< "2", "8", "/", "0", "2" >>, << "2", "9", "/", "0", "2" >>, << "3", "2", "/", "0", "1" >>} }
    \cup { << "f", "e", "r", "m", eacute, " ", "0", "1", "/", "0", "3" >>,
           << "F", "E", "R", "M", EACUTE, " ", "C", "O", "M", "P", "L", "E", "T", " ", "0", "1", "/", "0", "3" >>,
           << "F", "E", "R", "M", "E", " ", "O", "U", "V", "E", "R", "T" >> }

\* <<start, end>> of FERME DU start AU end
RangePairs ==
    { << << "2", "8", "/", "0", "2" >>, << "0", "1", "/", "0", "3" >> >>,
      << << "0", "1", "/", "0", "3" >>, << "2", "8", "/", "0", "2" >> >>,
      << << "0", "1", "/", "0", "3" >>, << "0", "1", "/", "0", "3" >> >>,
      << << "2", "8", "/", "0", "2" >>, << "3", "1", "/", "0", "4" >> >>,
      << << "D", "E", "M", "A", "I", "N" >>, << "0", "1", "/", "0", "3" >> >>,
      << << "2", "9", "/", "0", "2" >>, << "0", "1", "/", "0", "3" >> >> }

RangeTexts ==
    { FERMEA_SP \o DU \o SP \o p[1] \o SP \o AU \o SP \o p[2] : p \in RangePairs }
    \cup { << "F", "E", "R", "M", "E", " ", "2", "8", "/", "0", "2", "A", "U", "1", "/", "3" >>,
           << "f", "e", "r", "m", eacute, " ", "d", "u", " ", "2", "8", "/", "0", "2", " ", "a", "u", " ", "0", "1", "/", "0", "3" >>,
           << "F", "E", "R", "M", EACUTE, " ", "D", "U", " ", "2", "8", "/", "0", "2", " ", "A", "U", " ", "0", "1", "/", "0", "3", " ", "A", "U", " ", "0", "1", "/", "0", "3" >>,
           << "F", "E", "R", "M", "E", " ", "A", "U", "J", "O", "U", "R", "D", "H", "U", "I" >> }

\* MESSAGE commands; the last one arrives with leading white space
MessageTexts ==
    { << "M", "E", "S", "S", "A", "G", "E", " ", "H", "i" >>,
      << "M", "e", "s", "s", "a", "g", "e", " ", " ", "H", "i", " " >>,
      << "m", "e", "s", "s", "a", "g", "e", " ", "o", "F", "f" >>,
      << "M", "E", "S", "S", "A", "G", "E", " ", "O", "F", "F" >>,
      << " ", " ", "m", "e", "s", "s", "a", "g", "e", " ", "H", "i" >> }

\* texts that are no command
OtherTexts ==
    { << "B", "o", "n", "j", "o", "u", "r" >>,
      << "C", "O", "M", "P", "L", "E", "T" >>,
      << "O", "U", "V", "E", "R", "T", "?" >>,
      << "M", "E", "S", "S", "A", "G", "E" >>,
      << "U", "n", "e", " ", "T", "a", "b", "l", "e" >> }

OwnerMessages ==
    FixedPhrases \cup CasedPhrases \cup CompletTexts \cup FermeTexts
    \cup RangeTexts \cup MessageTexts \cup OtherTexts

\* ParseOwnerCommand of every text of the model, computed once
Directives == [m \in OwnerMessages |-> ParseOwnerCommand(m)]

\* handle_owner_command(phone_number_id, message) on the record rs and the stats
\* st of a registered restaurant, with nconv conversations of that restaurant,
\* on the day tdy at the time nw
HandleOwnerCommand(rs, st, nconv, message, tdy, nw) ==
    LET dv == Directives[message]
    IN  CASE dv.kind = "help"         -> HelpReply(rs, st)
          [] dv.kind = "status"       -> StatusReply(rs, st)
          [] dv.kind = "stats"        -> StatsReply(rs, st, nconv, tdy)
          [] dv.kind = "full_tonight" -> SetFullToday(rs, st, tdy, nw, "full_tonight", "soir")
          [] dv.kind = "full_lunch"   -> SetFullToday(rs, st, tdy, nw, "full_lunch", "midi")
          [] dv.kind = "full_date"    -> SetFullOnDate(rs, st, dv.d, tdy, nw)
          [] dv.kind = "closed_today" -> SetClosedToday(rs, st, tdy, nw)
          [] dv.kind = "closed_range" -> SetClosedRange(rs, st, dv.start, dv.end, tdy, nw)
          [] dv.kind = "closed_date"  -> SetClosedOnDate(rs, st, dv.d, tdy, nw)
          [] dv.kind = "open"         -> SetOpen(rs, st, nw)
          [] dv.kind = "message_off"  -> ClearTempMessage(rs, st, nw)
          [] dv.kind = "message"      -> SetTempMessage(rs, st, dv.text, nw)
          [] OTHER                    -> NotACommand(rs, st)


\* ------------------------------------------------------------------------
\* The dashboard writes
\* ------------------------------------------------------------------------

\* The JSON body of a request is a record: data.get(key, default)
Get(data, key, default) == IF key \in DOMAIN data THEN data[key] ELSE default

\* (mutant) the write ends before the stamp
UpdateStatusUnstamped(rs, data, tdy, nw) ==
    LET rs1 == [rs EXCEPT !.status = Get(data, "status", "open")]
    IN  IF Get(data, "status", "None") = "closed_today"
        THEN [rs1 EXCEPT !.closed_dates = Append(@, IsoFormat(tdy))]
        ELSE rs1

\* (mutant) the status is stored and nothing is appended to the closures
UpdateStatusNoAppend(rs, data, tdy, nw) ==
    [rs EXCEPT !.status = Get(data, "status", "open"), !.updated_at = nw]

\* POST /api/status with a valid key
UpdateStatus(rs, data, tdy, nw) ==
    LET rs1 == [rs EXCEPT !.status = Get(data, "status", "open"), !.updated_at = nw]
    IN  IF Get(data, "status", "None") = "closed_today"
        THEN [rs1 EXCEPT !.closed_dates = Append(@, IsoFormat(tdy))]
        ELSE rs1

\* POST /api/message with a valid key
UpdateMessage(rs, data, nw) ==
    [rs EXCEPT !.temp_message = Get(data, "message", << >>), !.updated_at = nw]

\* x in list
InList(x, list) == \E i \in 1..Len(list) : list[i] = x

\* (mutant) only a closure is stamped, a full date is not
AddClosedDateStampClosed(rs, data, nw) ==
    LET d == Get(data, "date", << >>)
    IN  IF Get(data, "type", "None") = "full"
        THEN [rs EXCEPT !.full_dates = Put(@, d, "journee")]
        ELSE IF ~InList(d, rs.closed_dates)
             THEN [rs EXCEPT !.closed_dates = Append(@, d), !.updated_at = nw]
             ELSE [rs EXCEPT !.updated_at = nw]

\* POST /api/closed with a valid key
AddClosedDate(rs, data, nw) ==
    LET d == Get(data, "date", << >>)
        rs1 == IF Get(data, "type", "None") = "full"
               THEN [rs EXCEPT !.full_dates = Put(@, d, "journee")]
               ELSE IF ~InList(d, rs.closed_dates)
                    THEN [rs EXCEPT !.closed_dates = Append(@, d)]
                    ELSE rs
    IN  [rs1 EXCEPT !.updated_at = nw]

\* ------------------------------------------------------------------------
\* State
\* ------------------------------------------------------------------------
VARIABLES
    restaurant_status,  \* restaurant_status[phone_number_id] of the one restaurant
    stats,              \* stats[phone_number_id]
    conversations,      \* customer phone -> list of turns
    bookings,           \* the booking leads
    today,              \* date.today()
    now,                \* datetime.utcnow(): a logical clock
    directive,          \* the branch the last call of handle_owner_command took
    response,           \* what the last request was and how it ended
    owner_phone,        \* restaurants[phone_number_id]["owner_phone"]
    tasks               \* the background tasks of the webhook events, in arrival order

vars == << restaurant_status, stats, conversations, bookings, today, now,
           directive, response, owner_phone, tasks >>

\* bounds of the model
MaxRequests == 2
MaxDays == 1

\* the days the process may start on: the last of February but one, in a
\* leap year and in a common year
StartDates == { MkDate(2027, 2, 28), MkDate(2028, 2, 28) }

\* the sender numbers of the model; OWNER_PHONE is either OwnerPhone or not set
OwnerPhone == << "3", "3", "6", "1" >>
CustomerPhone == << "3", "3", "6", "2" >>

RECURSIVE DaysFrom(_, _)
DaysFrom(d, n) == IF n = 0 THEN {} ELSE {d} \cup DaysFrom(NextDate(d), n - 1)

\* load_sample_restaurant
Init ==
    /\ today \in StartDates
    /\ restaurant_status = [status |-> "open", message |-> << >>,
                            closed_dates |-> << >>, full_dates |-> << >>,
                            temp_message |-> << >>, updated_at |-> 0]
    /\ stats = [messages_today |-> 0, bookings_today |-> 0, languages |-> << >>,
                last_reset |-> IsoFormat(today)]
    /\ conversations = << >>
    /\ bookings = << >>
    /\ now = 0
    /\ directive = "none"
    /\ response = [op |-> "load", kind |-> "None", arg |-> << >>, exc |-> "None"]
    /\ owner_phone \in { OwnerPhone, << >> }
    /\ tasks = << >>

\* sum(1 for k in conversations if k.startswith(phone_number_id))
ActiveConversations == Cardinality(DOMAIN conversations)

\* ------------------------------------------------------------------------
\* The availability machine: calls of handle_owner_command and dashboard writes
\* ------------------------------------------------------------------------

\* the owner's text reaches handle_owner_command
OwnerCommand(message) ==
    /\ now < MaxRequests
    /\ owner_phone # << >>
    /\ directive' = Directives[message].kind
    /\ \E r \in { HandleOwnerCommand(restaurant_status, stats, ActiveConversations,
                                      message, today, now + 1) } :
           /\ restaurant_status' = r.rs
           /\ stats' = r.st
           /\ response' = [op |-> "owner", kind |-> r.response.kind,
                           arg |-> r.response.arg, exc |-> r.exc]
    /\ now' = now + 1
    /\ UNCHANGED << conversations, bookings, today, owner_phone, tasks >>

\* the JSON bodies a dashboard client posts
StatusBodies ==
    { [status |-> v] : v \in {"open", "full_tonight", "full_lunch", "closed_today", "closed_until"} }
    \cup { [other |-> "x"] }

MessageBodies == { [message |-> << >>], [message |-> << "H", "i" >>], [other |-> "x"] }

DashboardDates == { IsoFormat(MkDate(2028, 2, 29)), IsoFormat(MkDate(2028, 3, 1)) }

ClosedBodies ==
    { [date |-> d, type |-> t] : d \in DashboardDates, t \in {"closed", "full"} }
    \cup { [date |-> d] : d \in DashboardDates }

Forbidden == [op |-> "dashboard", kind |-> "403", arg |-> << >>, exc |-> "None"]
Updated == [op |-> "dashboard", kind |-> "updated", arg |-> << >>, exc |-> "None"]

DashboardStatus(key_ok, data) ==
    /\ now < MaxRequests
    /\ IF key_ok
       THEN /\ restaurant_status' = UpdateStatus(restaurant_status, data, today, now + 1)
            /\ response' = Updated
       ELSE /\ restaurant_status' = restaurant_status
            /\ response' = Forbidden
    /\ now' = now + 1
    /\ UNCHANGED << stats, conversations, bookings, today, directive, owner_phone, tasks >>

DashboardMessage(key_ok, data) ==
    /\ now < MaxRequests
    /\ IF key_ok
       THEN /\ restaurant_status' = UpdateMessage(restaurant_status, data, now + 1)
            /\ response' = Updated
       ELSE /\ restaurant_status' = restaurant_status
            /\ response' = Forbidden
    /\ now' = now + 1
    /\ UNCHANGED << stats, conversations, bookings, today, directive, owner_phone, tasks >>

DashboardClosed(key_ok, data) ==
    /\ now < MaxRequests
    /\ IF key_ok
       THEN /\ restaurant_status' = AddClosedDate(restaurant_status, data, now + 1)
            /\ response' = Updated
       ELSE /\ restaurant_status' = restaurant_status
            /\ response' = Forbidden
    /\ now' = now + 1
    /\ UNCHANGED << stats, conversations, bookings, today, directive, owner_phone, tasks >>

\* the calendar day changes
Midnight ==
    /\ \E s \in StartDates : today \in DaysFrom(s, MaxDays)
    /\ today' = NextDate(today)
    /\ UNCHANGED << restaurant_status, stats, conversations, bookings, now,
                    directive, response, owner_phone, tasks >>

Next ==
    \/ \E message \in OwnerMessages : OwnerCommand(message)
    \/ \E key_ok \in BOOLEAN, data \in StatusBodies : DashboardStatus(key_ok, data)
    \/ \E key_ok \in BOOLEAN, data \in MessageBodies : DashboardMessage(key_ok, data)
    \/ \E key_ok \in BOOLEAN, data \in ClosedBodies : DashboardClosed(key_ok, data)
    \/ Midnight

Spec == Init /\ [][Next]_vars

\* ------------------------------------------------------------------------
\* The webhook pipeline: receive_message and its background tasks
\* ------------------------------------------------------------------------

\* bound of the model: the text events the webhook accepts
MaxEvents == 1

\* conversations[key][-20:] and history[-10:]
HistoryCap == 20
PromptWindow == 10

\* message[:200]
LeadClip == 200

\* the phone_number_id of the registered restaurant
PhoneNumberId == "sample"

\* (mutant) an unknown number falls back on the registered restaurant
InRegistryOrDefault(phone_number_id) == TRUE

\* restaurants.get(phone_number_id) finds a restaurant
InRegistry(phone_number_id) == phone_number_id = PhoneNumberId

\* str.lower
LowerChar(c) ==
    IF c = EACUTE THEN eacute
    ELSE IF \E i \in 1..Len(UpperLetters) : UpperLetters[i] = c
         THEN LowerLetters[CHOOSE i \in 1..Len(UpperLetters) : UpperLetters[i] = c]
         ELSE c

Lower(s) == [i \in 1..Len(s) |-> LowerChar(s[i])]

\* s[-n:] and s[:n]
LastN(s, n) == IF Len(s) <= n THEN s ELSE SubSeq(s, Len(s) - n + 1, Len(s))
FirstN(s, n) == IF Len(s) <= n THEN s ELSE SubSeq(s, 1, n)

\* (mutant) the temporary message is given only when no constraint is
BuildSystemPromptTempWhenOpen(rs, tdy) ==
    LET today_str == IsoFormat(tdy)
        quick  == IF rs.status \in {"full_tonight", "full_lunch", "closed_today"}
                  THEN [notice |-> rs.status, period |-> ""]
                  ELSE [notice |-> "", period |-> ""]
        closed == IF InList(today_str, rs.closed_dates)
                  THEN [notice |-> "closed_dates", period |-> ""]
                  ELSE quick
        status_context ==
                  IF today_str \in DOMAIN rs.full_dates
                  THEN [notice |-> "full_dates", period |-> rs.full_dates[today_str]]
                  ELSE closed
        future_closed == SelectSeq(rs.closed_dates, LAMBDA d : StrLess(today_str, d))
    IN  [status_context |-> status_context,
         future_closed  |-> future_closed,
         temp_msg       |-> IF status_context.notice = "" THEN rs.temp_message ELSE << >>]

\* (mutant) the note starts at today: d >= today_str
BuildSystemPromptFromToday(rs, tdy) ==
    LET today_str == IsoFormat(tdy)
        quick  == IF rs.status \in {"full_tonight", "full_lunch", "closed_today"}
                  THEN [notice |-> rs.status, period |-> ""]
                  ELSE [notice |-> "", period |-> ""]
        closed == IF InList(today_str, rs.closed_dates)
                  THEN [notice |-> "closed_dates", period |-> ""]
                  ELSE quick
        status_context ==
                  IF today_str \in DOMAIN rs.full_dates
                  THEN [notice |-> "full_dates", period |-> rs.full_dates[today_str]]
                  ELSE closed
        future_closed == SelectSeq(rs.closed_dates, LAMBDA d : ~StrLess(d, today_str))
    IN  [status_context |-> status_context,
         future_closed  |-> future_closed,
         temp_msg       |-> rs.temp_message]

\* (mutant) the full_dates test comes before the closed_dates test
BuildSystemPromptClosedLast(rs, tdy) ==
    LET today_str == IsoFormat(tdy)
        quick  == IF rs.status \in {"full_tonight", "full_lunch", "closed_today"}
                  THEN [notice |-> rs.status, period |-> ""]
                  ELSE [notice |-> "", period |-> ""]
        full   == IF today_str \in DOMAIN rs.full_dates
                  THEN [notice |-> "full_dates", period |-> rs.full_dates[today_str]]
                  ELSE quick
        status_context ==
                  IF InList(today_str, rs.closed_dates)
                  THEN [notice |-> "closed_dates", period |-> ""]
                  ELSE full
        future_closed == SelectSeq(rs.closed_dates, LAMBDA d : StrLess(today_str, d))
    IN  [status_context |-> status_context,
         future_closed  |-> future_closed,
         temp_msg       |-> rs.temp_message]

\* (mutant) the closed_dates test is an elif of the status chain
BuildSystemPromptElif(rs, tdy) ==
    LET today_str == IsoFormat(tdy)
        quick  == IF rs.status \in {"full_tonight", "full_lunch", "closed_today"}
                  THEN [notice |-> rs.status, period |-> ""]
                  ELSE IF InList(today_str, rs.closed_dates)
                       THEN [notice |-> "closed_dates", period |-> ""]
                       ELSE [notice |-> "", period |-> ""]
        status_context ==
                  IF today_str \in DOMAIN rs.full_dates
                  THEN [notice |-> "full_dates", period |-> rs.full_dates[today_str]]
                  ELSE quick
        future_closed == SelectSeq(rs.closed_dates, LAMBDA d : StrLess(today_str, d))
    IN  [status_context |-> status_context,
         future_closed  |-> future_closed,
         temp_msg       |-> rs.temp_message]

\* build_system_prompt: the parts of the prompt that depend on the record.
\* notice names the sentence of status_context ("" when there is none), period
\* the label a full_dates entry puts into it.
BuildSystemPrompt(rs, tdy) ==
    LET today_str == IsoFormat(tdy)
        quick  == IF rs.status \in {"full_tonight", "full_lunch", "closed_today"}
                  THEN [notice |-> rs.status, period |-> ""]
                  ELSE [notice |-> "", period |-> ""]
        closed == IF InList(today_str, rs.closed_dates)
                  THEN [notice |-> "closed_dates", period |-> ""]
                  ELSE quick
        status_context ==
                  IF today_str \in DOMAIN rs.full_dates
                  THEN [notice |-> "full_dates", period |-> rs.full_dates[today_str]]
                  ELSE closed
        future_closed == SelectSeq(rs.closed_dates, LAMBDA d : StrLess(today_str, d))
    IN  [status_context |-> status_context,
         future_closed  |-> future_closed,
         temp_msg       |-> rs.temp_message]

\* the value of the task fields before process_and_reply fills them
NoPrompt == [status_context |-> [notice |-> "", period |-> ""],
             future_closed |-> << >>, temp_msg |-> << >>]

\* what ask_claude returns: the text of the model's answer, or the apology of
\* its except branch (the first word stands for the sentence)
Answer == << "O", "k" >>
Apology == << "D", eacute, "s", "o", "l", eacute >>

\* get_conversation: the key is created on first use
GetConversation(convs, customer_phone) ==
    IF customer_phone \in DOMAIN convs THEN convs ELSE Put(convs, customer_phone, << >>)

\* the turns sent to the model: role and content of the last turns, then the
\* new user turn
ClaudeMessages(history, message_text) ==
    LET recent == LastN(history, PromptWindow)
    IN  [j \in 1..Len(recent) |-> [role |-> recent[j].role, content |-> recent[j].content]]
        \o << [role |-> "user", content |-> message_text] >>

\* (mutant) the slice keeps the first turns: [:20]
SaveMessageKeepFirst(convs, customer_phone, role, content, timestamp) ==
    LET c == GetConversation(convs, customer_phone)
        turn == [role |-> role, content |-> content, timestamp |-> timestamp]
    IN  Put(c, customer_phone, FirstN(Append(c[customer_phone], turn), HistoryCap))

\* save_message
SaveMessage(convs, customer_phone, role, content, timestamp) ==
    LET c == GetConversation(convs, customer_phone)
        turn == [role |-> role, content |-> content, timestamp |-> timestamp]
    IN  Put(c, customer_phone, LastN(Append(c[customer_phone], turn), HistoryCap))

\* (mutant) the reply is saved, the customer's text is not
SaveExchangeReplyOnly(convs, customer_phone, message_text, reply, nw) ==
    SaveMessage(convs, customer_phone, "assistant", reply, nw + 2)

\* the two calls of save_message in process_and_reply, with no await between
\* them: the customer's text, then the reply
SaveExchange(convs, customer_phone, message_text, reply, nw) ==
    SaveMessage(SaveMessage(convs, customer_phone, "user", message_text, nw + 1),
                customer_phone, "assistant", reply, nw + 2)

\* track_stats(phone_number_id, is_booking, language="fr")
TrackStats(st, tdy, is_booking) ==
    LET st1 == IF st.last_reset # IsoFormat(tdy)
               THEN [st EXCEPT !.messages_today = 0, !.bookings_today = 0,
                               !.languages = << >>, !.last_reset = IsoFormat(tdy)]
               ELSE st
        st2 == [st1 EXCEPT !.messages_today = @ + 1]
        st3 == IF is_booking THEN [st2 EXCEPT !.bookings_today = @ + 1] ELSE st2
    IN  [st3 EXCEPT !.languages = Put(@, "fr", Get(@, "fr", 0) + 1)]

\* booking_keywords
BookingKeywords ==
    { << "r", eacute, "s", "e", "r", "v" >>, << "r", "e", "s", "e", "r", "v" >>,
      << "b", "o", "o", "k" >>, << "t", "a", "b", "l", "e" >>,
      << "p", "r", "e", "n", "o", "t" >> }

\* any(kw in message.lower() for kw in booking_keywords)
IsBooking(message) == \E kw \in BookingKeywords : Contains(Lower(message), kw)

\* the booking lead notify_owner records (customer_name is empty in the model,
\* so the name is the phone)
Lead(customer_phone, message, timestamp) ==
    [phone |-> customer_phone, name |-> customer_phone,
     message |-> FirstN(message, LeadClip), timestamp |-> timestamp, status |-> "pending"]

\* one call of send_whatsapp_message: the recipient, what is sent and how the
\* POST ended ("pending" while it is awaited)
Outbound(kind, to, body) == [kind |-> kind, to |-> to, body |-> body, result |-> "pending"]

\* (mutant) a failed POST raises out of the task
SendRaises(ok, pc) == IF ok THEN pc ELSE "failed"

\* where the task goes on once send_whatsapp_message or mark_as_read has
\* returned: the except branch logs (or passes) and the caller continues
SendReturns(ok, pc) == pc

\* the POST of the last call returned
Settle(out, ok) == [out EXCEPT ![Len(out)].result = IF ok THEN "sent" ELSE "failed"]

\* the texts of the webhook events of the model
RelayTexts ==
    { << "B", "o", "n", "j", "o", "u", "r" >>,
      << "U", "n", "e", " ", "T", "a", "b", "l", "e" >>,
      OUVERT, FERMEA }

\* the payloads the webhook receives: text messages to the registered number
\* from the owner's and a customer's phone, one to an unknown number, and one
\* that is no text message
WebhookEvents ==
    { [type |-> "text", phone_number_id |-> PhoneNumberId, from |-> f, text |-> x] :
          f \in {OwnerPhone, CustomerPhone}, x \in RelayTexts }
    \cup { [type |-> "text", phone_number_id |-> "unknown", from |-> CustomerPhone,
            text |-> << "B", "o", "n", "j", "o", "u", "r" >>],
           [type |-> "image", phone_number_id |-> PhoneNumberId, from |-> CustomerPhone,
            text |-> << >>] }

\* (mutant) the handler awaits the processing: the task is through its reply
\* when the handler returns
QueuedTaskAwaited(ev) ==
    [pc |-> "done",
     phone_number_id |-> ev.phone_number_id,
     from |-> ev.from, text |-> ev.text,
     system_prompt |-> NoPrompt, claude_messages |-> << >>,
     response |-> Answer, out |-> << [kind |-> "reply", to |-> ev.from, body |-> Answer,
                                      result |-> "sent"] >>]

\* the background work queued for a text event: mark_as_read first for a
\* registered number, then process_and_reply; nothing of it has run yet
QueuedTask(ev) ==
    [pc |-> IF InRegistry(ev.phone_number_id)
            THEN "mark_as_read" ELSE "process_and_reply",
     phone_number_id |-> ev.phone_number_id,
     from |-> ev.from, text |-> ev.text,
     system_prompt |-> NoPrompt, claude_messages |-> << >>,
     response |-> << >>, out |-> << >>]

\* the body of POST /webhook/whatsapp: parse_webhook, then the background
\* tasks are queued and {"status": "ok"} is returned
Enqueue(ev) ==
    /\ IF ev.type # "text"
       THEN UNCHANGED tasks
       ELSE tasks' = Append(tasks, QueuedTask(ev))
    /\ UNCHANGED << restaurant_status, stats, conversations, bookings, today, now,
                    directive, response, owner_phone >>

\* POST /webhook/whatsapp, while the model takes events
ReceiveMessage(ev) ==
    /\ Len(tasks) < MaxEvents
    /\ Enqueue(ev)

\* mark_as_read returns, whatever the POST did; process_and_reply is next
MarkAsRead(i, ok) ==
    /\ tasks[i].pc = "mark_as_read"
    /\ tasks' = [tasks EXCEPT ![i].pc = SendReturns(ok, "process_and_reply")]
    /\ UNCHANGED << restaurant_status, stats, conversations, bookings, today, now,
                    directive, response, owner_phone >>

\* (mutant) every sender is taken for the owner once an owner is configured
IsOwnerAnySender(owner, customer_phone) == owner # << >>

\* if owner_phone and customer_phone == owner_phone
IsOwner(owner, customer_phone) == owner # << >> /\ customer_phone = owner

\* process_and_reply up to its first await that suspends: the restaurant
\* lookup, the owner check with the whole of handle_owner_command, and then
\* either the command reply is handed to send_whatsapp_message or the prompt
\* and the turns are built and handed to ask_claude.  t, is_owner and r are
\* the locals of the call, each computed once.
ProcessAndReply(i) ==
    /\ tasks[i].pc = "process_and_reply"
    /\ \E t \in { tasks[i] } :
       \E is_owner \in { IsOwner(owner_phone, t.from) } :
       \E r \in { IF is_owner
                  THEN HandleOwnerCommand(restaurant_status, stats, ActiveConversations,
                                          t.text, today, now + 1)
                  ELSE Returned(restaurant_status, stats, "None", << >>) } :
           IF ~InRegistry(t.phone_number_id)
           THEN /\ tasks' = [tasks EXCEPT ![i].pc = "done"]
                /\ UNCHANGED << restaurant_status, stats, conversations, now,
                                directive, response >>
           ELSE /\ restaurant_status' = r.rs
                /\ stats' = r.st
                /\ IF is_owner
                   THEN /\ now' = now + 1
                        /\ directive' = Directives[t.text].kind
                        /\ response' = [op |-> "owner", kind |-> r.response.kind,
                                        arg |-> r.response.arg, exc |-> r.exc]
                   ELSE UNCHANGED << now, directive, response >>
                /\ IF r.exc # "None"
                   THEN /\ tasks' = [tasks EXCEPT ![i].pc = "failed"]
                        /\ UNCHANGED conversations
                   ELSE IF r.response.kind # "None"
                   THEN /\ tasks' = [tasks EXCEPT
                               ![i].pc = "send_command_reply",
                               ![i].out = Append(@, Outbound("command", t.from, r.response))]
                        /\ UNCHANGED conversations
                   ELSE /\ conversations' = GetConversation(conversations, t.from)
                        /\ tasks' = [tasks EXCEPT
                               ![i].pc = "ask_claude",
                               ![i].system_prompt = BuildSystemPrompt(r.rs, today),
                               ![i].claude_messages =
                                   ClaudeMessages(conversations'[t.from], t.text)]
    /\ UNCHANGED << bookings, today, owner_phone >>

\* the send of a command reply returned: process_and_reply returns
CommandReplySent(i, ok) ==
    /\ tasks[i].pc = "send_command_reply"
    /\ tasks' = [tasks EXCEPT ![i].pc = SendReturns(ok, "done"), ![i].out = Settle(@, ok)]
    /\ UNCHANGED << restaurant_status, stats, conversations, bookings, today, now,
                    directive, response, owner_phone >>

\* (mutant) a failed call returns an empty text
AskClaudeReturnsEmpty(ok) == IF ok THEN Answer ELSE << >>

\* ask_claude: the text of the answer, or the apology of except Exception
AskClaudeReturns(ok) == IF ok THEN Answer ELSE Apology

\* ask_claude returned (the answer, or the apology when the call failed): both
\* turns are saved, the message is counted and the reply is handed to
\* send_whatsapp_message
AskClaude(i, ok) ==
    /\ tasks[i].pc = "ask_claude"
    /\ LET t == tasks[i]
           reply == AskClaudeReturns(ok)
       IN  /\ conversations' = SaveExchange(conversations, t.from, t.text, reply, now)
           /\ stats' = TrackStats(stats, today, FALSE)
           /\ tasks' = [tasks EXCEPT ![i].pc = "send_reply",
                                     ![i].response = reply,
                                     ![i].out = Append(@, Outbound("reply", t.from, reply))]
    /\ now' = now + 2
    /\ UNCHANGED << restaurant_status, bookings, today, directive, response, owner_phone >>

\* the send of the reply returned: notify_owner up to its await, which records
\* the lead and hands the notification to send_whatsapp_message when an owner
\* is configured and the text holds a booking keyword
ReplySent(i, ok) ==
    /\ tasks[i].pc = "send_reply"
    /\ LET t == tasks[i]
       IN  IF owner_phone # << >> /\ IsBooking(t.text)
           THEN /\ bookings' = Append(bookings, Lead(t.from, t.text, now + 1))
                /\ now' = now + 1
                /\ tasks' = [tasks EXCEPT
                       ![i].pc = SendReturns(ok, "send_notification"),
                       ![i].out = Append(Settle(@, ok),
                                         Outbound("notification", owner_phone, FirstN(t.text, LeadClip)))]
           ELSE /\ tasks' = [tasks EXCEPT ![i].pc = SendReturns(ok, "done"), ![i].out = Settle(@, ok)]
                /\ UNCHANGED << bookings, now >>
    /\ UNCHANGED << restaurant_status, stats, conversations, today,
                    directive, response, owner_phone >>

\* the send of the notification returned: the booking is counted
NotificationSent(i, ok) ==
    /\ tasks[i].pc = "send_notification"
    /\ stats' = TrackStats(stats, today, TRUE)
    /\ tasks' = [tasks EXCEPT ![i].pc = SendReturns(ok, "done"), ![i].out = Settle(@, ok)]
    /\ UNCHANGED << restaurant_status, conversations, bookings, today, now,
                    directive, response, owner_phone >>

NextRelay ==
    \/ \E ev \in WebhookEvents : ReceiveMessage(ev)
    \/ \E i \in 1..Len(tasks), ok \in BOOLEAN : MarkAsRead(i, ok)
    \/ \E i \in 1..Len(tasks) : ProcessAndReply(i)
    \/ \E i \in 1..Len(tasks), ok \in BOOLEAN : CommandReplySent(i, ok)
    \/ \E i \in 1..Len(tasks), ok \in BOOLEAN : AskClaude(i, ok)
    \/ \E i \in 1..Len(tasks), ok \in BOOLEAN : ReplySent(i, ok)
    \/ \E i \in 1..Len(tasks), ok \in BOOLEAN : NotificationSent(i, ok)
    \/ Midnight

SpecRelay == Init /\ [][NextRelay]_vars

\* ------------------------------------------------------------------------
\* The projector on the records the owner and the dashboard produce
\* ------------------------------------------------------------------------
\* build_system_prompt is called on the record as it stands; the response
\* keeps the day of the call and the prompt
BuildPrompt ==
    /\ response' = [op |-> "prompt", kind |-> "prompt",
                    arg |-> << IsoFormat(today), BuildSystemPrompt(restaurant_status, today) >>,
                    exc |-> "None"]
    /\ UNCHANGED << restaurant_status, stats, conversations, bookings, today, now,
                    directive, owner_phone, tasks >>

NextPrompt ==
    \/ \E message \in OwnerMessages : OwnerCommand(message)
    \/ \E key_ok \in BOOLEAN, data \in StatusBodies : DashboardStatus(key_ok, data)
    \/ \E key_ok \in BOOLEAN, data \in MessageBodies : DashboardMessage(key_ok, data)
    \/ \E key_ok \in BOOLEAN, data \in ClosedBodies : DashboardClosed(key_ok, data)
    \/ Midnight
    \/ BuildPrompt

SpecPrompt == Init /\ [][NextPrompt]_vars

\* ------------------------------------------------------------------------
\* Concurrent requests: webhook events and dashboard writes on one event loop
\* ------------------------------------------------------------------------
\* the requests the concurrent model takes
MaxClients == 2

\* the events and the dashboard calls of the concurrent model: the owner
\* closes a range that starts today, a customer writes (no booking keyword, so
\* notify_owner sends nothing), the dashboard closes today and marks a day full
ConcurrentEvents ==
    { [type |-> "text", phone_number_id |-> PhoneNumberId, from |-> OwnerPhone,
       text |-> FERMEA_SP \o DU \o SP \o << "2", "8", "/", "0", "2" >>
                         \o SP \o AU \o SP \o << "0", "1", "/", "0", "3" >>],
      [type |-> "text", phone_number_id |-> PhoneNumberId, from |-> CustomerPhone,
       text |-> << "B", "o", "n", "j", "o", "u", "r" >>] }

DashboardCalls ==
    { << "status", [status |-> "closed_today"] >>,
      << "closed", [date |-> IsoFormat(MkDate(2028, 2, 29)), type |-> "full"] >> }

\* POST /webhook/whatsapp, while the concurrent model takes requests
ReceiveConcurrent(ev) ==
    /\ Len(tasks) < MaxClients
    /\ Enqueue(ev)

\* a dashboard POST up to its await: the key is checked and the handler waits
\* for the body (await request.json())
DashboardRequest(endpoint, key_ok, data) ==
    /\ Len(tasks) < MaxClients
    /\ IF key_ok
       THEN /\ tasks' = Append(tasks, [pc |-> "request_json", endpoint |-> endpoint,
                                       data |-> data])
            /\ UNCHANGED response
       ELSE /\ response' = Forbidden
            /\ UNCHANGED tasks
    /\ UNCHANGED << restaurant_status, stats, conversations, bookings, today, now,
                    directive, owner_phone >>

\* the body has arrived: the handler reads the record and writes it, with no
\* await before it returns
DashboardWrite(i) ==
    /\ tasks[i].pc = "request_json"
    /\ restaurant_status' =
          CASE tasks[i].endpoint = "status" ->
                   UpdateStatus(restaurant_status, tasks[i].data, today, now + 1)
            [] tasks[i].endpoint = "message" ->
                   UpdateMessage(restaurant_status, tasks[i].data, now + 1)
            [] OTHER ->
                   AddClosedDate(restaurant_status, tasks[i].data, now + 1)
    /\ response' = Updated
    /\ now' = now + 1
    /\ tasks' = [tasks EXCEPT ![i].pc = "done"]
    /\ UNCHANGED << stats, conversations, bookings, today, directive, owner_phone >>

NextConcurrent ==
    \/ \E ev \in ConcurrentEvents : ReceiveConcurrent(ev)
    \/ \E c \in DashboardCalls, key_ok \in BOOLEAN : DashboardRequest(c[1], key_ok, c[2])
    \/ \E i \in 1..Len(tasks) : DashboardWrite(i)
    \/ \E i \in 1..Len(tasks), ok \in BOOLEAN : MarkAsRead(i, ok)
    \/ \E i \in 1..Len(tasks) : ProcessAndReply(i)
    \/ \E i \in 1..Len(tasks), ok \in BOOLEAN : CommandReplySent(i, ok)
    \/ \E i \in 1..Len(tasks), ok \in BOOLEAN : AskClaude(i, ok)
    \/ \E i \in 1..Len(tasks), ok \in BOOLEAN : ReplySent(i, ok)

SpecConcurrent == Init /\ [][NextConcurrent]_vars

\* ------------------------------------------------------------------------
\* save_message on its own: long conversations
\* ------------------------------------------------------------------------
\* the calls of save_message, and those of them for the second customer
MaxSaves == 22
MaxOtherSaves == 1

\* one call of save_message for customer_phone; the roles alternate as
\* process_and_reply saves them, the timestamp tells the turns apart
SaveTurn(customer_phone) ==
    /\ now < MaxSaves
    /\ customer_phone = OwnerPhone =>
           Len(IF OwnerPhone \in DOMAIN conversations THEN conversations[OwnerPhone]
               ELSE << >>) < MaxOtherSaves
    /\ conversations' =
           SaveMessage(conversations, customer_phone,
                       IF now % 2 = 0 THEN "user" ELSE "assistant",
                       IF now % 2 = 0 THEN << "B", "o", "n", "j", "o", "u", "r" >> ELSE Answer,
                       now + 1)
    /\ now' = now + 1
    /\ UNCHANGED << restaurant_status, stats, bookings, today, directive, response,
                    owner_phone, tasks >>

NextHistory == \E customer_phone \in {CustomerPhone, OwnerPhone} : SaveTurn(customer_phone)

SpecHistory == Init /\ [][NextHistory]_vars

\* ------------------------------------------------------------------------
\* The day's counters: track_stats, the STATS command and the change of day
\* ------------------------------------------------------------------------
\* one call of track_stats
TrackMessage(is_booking) ==
    /\ now < MaxRequests
    /\ stats' = TrackStats(stats, today, is_booking)
    /\ now' = now + 1
    /\ UNCHANGED << restaurant_status, conversations, bookings, today, directive,
                    response, owner_phone, tasks >>

NextStats ==
    \/ \E is_booking \in BOOLEAN : TrackMessage(is_booking)
    \/ OwnerCommand(STATS)
    \/ Midnight

SpecStats == Init /\ [][NextStats]_vars

\* ------------------------------------------------------------------------
\* The dashboard API: the key check, the reads and the writes
\* ------------------------------------------------------------------------
\* DASHBOARD_SECRET, and the keys the requests of the model carry: the
\* secret, another string, and none (the default of query_params.get)
DashboardSecret == "secret"
Keys == { DashboardSecret, "guess", "" }

\* (mutant) a request without a key passes
KeyAcceptedWhenMissing(key) == key = DashboardSecret \/ key = ""

\* not (key != DASHBOARD_SECRET)
KeyAccepted(key) == key = DashboardSecret

\* the slices of the reads
RecentCap == 20
PreviewClip == 100
BookingsCap == 50

\* the sort key of a conversation: the timestamp of its last turn, and for an
\* empty one the empty string, which is below every timestamp
LastStamp(msgs) == IF msgs = << >> THEN 0 ELSE msgs[Len(msgs)].timestamp

\* sorted(conversations.items(), key=..., reverse=True): the keys, latest first
RECURSIVE ByLastStamp(_, _)
ByLastStamp(convs, keys) ==
    IF keys = {} THEN << >>
    ELSE LET k == CHOOSE x \in keys :
                     \A y \in keys : LastStamp(convs[y]) <= LastStamp(convs[x])
         IN  << k >> \o ByLastStamp(convs, keys \ {k})

\* a turn as the reads show it (the time is the timestamp; its cut to the
\* minute is below the resolution of the logical clock)
TurnView(m) == [role |-> m.role, content |-> m.content, time |-> m.timestamp]

\* the body of GET /api/dashboard
DashboardDataBody(rs, st, convs) ==
    LET first == FirstN(ByLastStamp(convs, DOMAIN convs), RecentCap)
        shown == SelectSeq(first, LAMBDA k : convs[k] # << >>)
    IN  [stats |-> st, status |-> rs,
         conversations_count |-> Cardinality(DOMAIN convs),
         recent_conversations |->
             [j \in 1..Len(shown) |->
                 LET last == convs[shown[j]][Len(convs[shown[j]])]
                 IN  [phone |-> shown[j],
                      last_message |-> FirstN(last.content, PreviewClip),
                      time |-> last.timestamp]]]

\* the body of GET /api/conversations
ConversationsBody(convs) ==
    LET shown == SelectSeq(ByLastStamp(convs, DOMAIN convs), LAMBDA k : convs[k] # << >>)
    IN  [conversations |->
             [j \in 1..Len(shown) |->
                 LET msgs == convs[shown[j]]
                 IN  [phone |-> shown[j],
                      messages |-> [n \in 1..Len(msgs) |-> TurnView(msgs[n])],
                      last_message |-> FirstN(msgs[Len(msgs)].content, PreviewClip),
                      last_time |-> msgs[Len(msgs)].timestamp,
                      count |-> Len(msgs)]]]

\* the body of GET /api/conversation/{phone}
ConversationDetailBody(convs, phone) ==
    LET msgs == IF phone \in DOMAIN convs THEN convs[phone] ELSE << >>
    IN  [phone |-> phone, messages |-> [n \in 1..Len(msgs) |-> TurnView(msgs[n])]]

\* the body of GET /api/bookings
BookingsBody(bks) == [bookings |-> LastN(bks, BookingsCap)]

\* a read answered with its body
Served(endpoint, body) ==
    [op |-> "dashboard", kind |-> "200", arg |-> << endpoint, body >>, exc |-> "None"]

\* a GET of the dashboard API: the key is checked, then the body is built;
\* nothing is written
DashboardRead(key, endpoint, body) ==
    /\ response' = IF KeyAccepted(key) THEN Served(endpoint, body) ELSE Forbidden
    /\ UNCHANGED << restaurant_status, stats, conversations, bookings, today, now,
                    directive, owner_phone, tasks >>

DashboardData(key) ==
    DashboardRead(key, "dashboard", DashboardDataBody(restaurant_status, stats, conversations))

ListConversations(key) ==
    DashboardRead(key, "conversations", ConversationsBody(conversations))

GetConversationDetail(phone, key) ==
    DashboardRead(key, "conversation", ConversationDetailBody(conversations, phone))

ListBookings(key) ==
    DashboardRead(key, "bookings", BookingsBody(bookings))

\* the bodies the writes of this model post
WriteCalls ==
    { << "status", [status |-> "closed_today"] >>,
      << "message", [message |-> << "H", "i" >>] >>,
      << "closed", [date |-> IsoFormat(MkDate(2028, 2, 29)), type |-> "closed"] >> }

\* a POST of the dashboard API with its key
DashboardPost(key, call) ==
    CASE call[1] = "status"  -> DashboardStatus(KeyAccepted(key), call[2])
      [] call[1] = "message" -> DashboardMessage(KeyAccepted(key), call[2])
      [] call[1] = "closed"  -> DashboardClosed(KeyAccepted(key), call[2])

\* one customer's booking request is relayed while the dashboard is used
BookingEvents ==
    { [type |-> "text", phone_number_id |-> PhoneNumberId, from |-> CustomerPhone,
       text |-> << "U", "n", "e", " ", "T", "a", "b", "l", "e" >>] }

\* POST /webhook/whatsapp, taken while no event was queued before
ReceiveBooking(ev) ==
    /\ tasks = << >>
    /\ Enqueue(ev)

NextDashboard ==
    \/ \E ev \in BookingEvents : ReceiveBooking(ev)
    \/ \E i \in 1..Len(tasks), ok \in BOOLEAN : MarkAsRead(i, ok)
    \/ \E i \in 1..Len(tasks) : ProcessAndReply(i)
    \/ \E i \in 1..Len(tasks), ok \in BOOLEAN : AskClaude(i, ok)
    \/ \E i \in 1..Len(tasks), ok \in BOOLEAN : ReplySent(i, ok)
    \/ \E i \in 1..Len(tasks), ok \in BOOLEAN : NotificationSent(i, ok)
    \/ \E key \in Keys, call \in WriteCalls : DashboardPost(key, call)
    \/ \E key \in Keys : DashboardData(key)
    \/ \E key \in Keys : ListConversations(key)
    \/ \E key \in Keys, phone \in {CustomerPhone, OwnerPhone} : GetConversationDetail(phone, key)
    \/ \E key \in Keys : ListBookings(key)

SpecDashboard == Init /\ [][NextDashboard]_vars



\* ------------------------------------------------------------------------
\* Properties of the availability machine
\* ------------------------------------------------------------------------
TodayStr == IsoFormat(today)

IsPrefix(a, b) == Len(a) <= Len(b) /\ SubSeq(b, 1, Len(a)) = a

\* the keys of g that f lacks or maps to another value
ChangedKeys(f, g) == { k \in DOMAIN g : k \notin DOMAIN f \/ f[k] # g[k] }

\* the day and the month a token of the model names
DayMonthOf(t) ==
    CASE t = << "2", "8", "/", "0", "2" >> -> << 28, 2 >>
      [] t = << "2", "9", "/", "0", "2" >> -> << 29, 2 >>
      [] t = << "0", "1", "/", "0", "3" >> -> << 1, 3 >>
      [] t = << "1", "/", "3" >>           -> << 1, 3 >>
      [] t = << "3", "1", "/", "0", "4" >> -> << 31, 4 >>
      [] OTHER                             -> << 0, 0 >>

\* t names a day of the year y
NamesDate(t, y) == ValidDate(y, DayMonthOf(t)[2], DayMonthOf(t)[1])

TokenDate(t, y) == MkDate(y, DayMonthOf(t)[2], DayMonthOf(t)[1])

RangeText(p) == FERMEA_SP \o DU \o SP \o p[1] \o SP \o AU \o SP \o p[2]

OpenTexts == { m \in OwnerMessages : Upper(Strip(m)) \in {OUVERT, OPEN, NORMAL} }

\* C1: a step that handles OUVERT, OPEN or NORMAL sets status to open and leaves
\* closed_dates, full_dates and temp_message as they were (so today, when it is
\* in closed_dates after FERME, is still there).
C1_SetOpenFrame ==
    [][\A m \in OpenTexts : OwnerCommand(m) =>
          /\ restaurant_status'.status = "open"
          /\ restaurant_status'.closed_dates = restaurant_status.closed_dates
          /\ restaurant_status'.full_dates = restaurant_status.full_dates
          /\ restaurant_status'.temp_message = restaurant_status.temp_message]_vars

\* OUVERT was the second request of a day whose first request closed the day
C1_Witness ==
    /\ response.op = "owner" /\ response.kind = "open"
    /\ restaurant_status.status = "open"
    /\ restaurant_status.closed_dates = << TodayStr >>
    /\ restaurant_status.updated_at = 2

ClosedTodayTexts ==
    { m \in OwnerMessages :
        Upper(Strip(m)) \in {FERMEA_AUJOURDHUI, FERME_AUJOURDHUI, FERMEA, FERME, CLOSED_TODAY} }

\* C2: a step that handles FERME AUJOURD'HUI (or its variants) sets status to
\* closed_today and appends today to closed_dates, also when today is already in
\* the list: each application adds exactly one more occurrence of today.
C2_ClosedTodayAppends ==
    [][\A m \in ClosedTodayTexts : OwnerCommand(m) =>
          /\ restaurant_status'.status = "closed_today"
          /\ restaurant_status'.closed_dates = Append(restaurant_status.closed_dates, TodayStr)]_vars

\* FERME handled twice on the same day: today is in the list twice
C2_Witness ==
    /\ response.op = "owner" /\ response.kind = "closed_today"
    /\ restaurant_status.closed_dates = << TodayStr, TodayStr >>

FullTonightTexts ==
    { m \in OwnerMessages : Upper(Strip(m)) \in {COMPLET_CE_SOIR, COMPLET_SOIR, FULL_TONIGHT} }

FullLunchTexts ==
    { m \in OwnerMessages : Upper(Strip(m)) \in {COMPLET_MIDI, COMPLET_CE_MIDI, FULL_LUNCH} }

\* the effect C3 states for the status s and the period label p
FullTodayEffect(s, p) ==
    /\ restaurant_status'.status = s
    /\ TodayStr \in DOMAIN restaurant_status'.full_dates
    /\ restaurant_status'.full_dates[TodayStr] = p
    /\ DOMAIN restaurant_status'.full_dates = DOMAIN restaurant_status.full_dates \cup {TodayStr}
    /\ \A k \in DOMAIN restaurant_status.full_dates :
          k # TodayStr => restaurant_status'.full_dates[k] = restaurant_status.full_dates[k]
    /\ restaurant_status'.closed_dates = restaurant_status.closed_dates
    /\ restaurant_status'.temp_message = restaurant_status.temp_message

\* C3: COMPLET CE SOIR sets status full_tonight and full_dates[today] = soir,
\* COMPLET MIDI sets status full_lunch and full_dates[today] = midi, replacing a
\* label already stored for today; closed_dates, temp_message and the other
\* entries of full_dates are left as they were.
C3_FullTodayEffect ==
    [][/\ \A m \in FullTonightTexts : OwnerCommand(m) => FullTodayEffect("full_tonight", "soir")
       /\ \A m \in FullLunchTexts : OwnerCommand(m) => FullTodayEffect("full_lunch", "midi")]_vars

\* COMPLET MIDI handled when full_dates already held another date
C3_Witness ==
    /\ response.op = "owner" /\ response.kind = "full_lunch"
    /\ restaurant_status.status = "full_lunch"
    /\ TodayStr \in DOMAIN restaurant_status.full_dates
    /\ restaurant_status.full_dates[TodayStr] = "midi"
    /\ Cardinality(DOMAIN restaurant_status.full_dates) = 2

\* the commands that name a date
DateTexts == CompletTexts \cup FermeTexts \cup RangeTexts

\* C4: COMPLET <date>, FERME <date> and FERME DU <date> AU <date> never change
\* status or temp_message, also when the date is today; COMPLET <date> changes
\* at most one entry of full_dates, to journee, and nothing in closed_dates; the
\* FERME forms only append to closed_dates and change nothing in full_dates.
C4_DateDirectivesFrame ==
    [][\A m \in DateTexts : OwnerCommand(m) =>
          /\ restaurant_status'.status = restaurant_status.status
          /\ restaurant_status'.temp_message = restaurant_status.temp_message
          /\ m \in CompletTexts =>
                /\ restaurant_status'.closed_dates = restaurant_status.closed_dates
                /\ DOMAIN restaurant_status.full_dates \subseteq DOMAIN restaurant_status'.full_dates
                /\ Cardinality(ChangedKeys(restaurant_status.full_dates,
                                           restaurant_status'.full_dates)) <= 1
                /\ \A k \in ChangedKeys(restaurant_status.full_dates, restaurant_status'.full_dates) :
                      restaurant_status'.full_dates[k] = "journee"
          /\ m \notin CompletTexts =>
                /\ restaurant_status'.full_dates = restaurant_status.full_dates
                /\ IsPrefix(restaurant_status.closed_dates, restaurant_status'.closed_dates)]_vars

\* FERME <today's date> handled while the quick status was full_tonight
C4_Witness ==
    /\ response.op = "owner" /\ response.kind = "closed_date"
    /\ response.arg = StrfDMY(today)
    /\ restaurant_status.status = "full_tonight"
    /\ restaurant_status.closed_dates = << TodayStr >>


\* the number of the day dt in its year
RECURSIVE DaysBefore(_, _)
DaysBefore(y, m) == IF m = 1 THEN 0 ELSE DaysBefore(y, m - 1) + DaysInMonth(y, m - 1)

DayOfYear(dt) == DaysBefore(dt.year, dt.month) + dt.day

\* the n-th day of the year y
DateOfOrdinal(y, n) ==
    LET m == CHOOSE k \in 1..12 : DaysBefore(y, k) < n /\ n <= DaysBefore(y, k) + DaysInMonth(y, k)
    IN  MkDate(y, m, n - DaysBefore(y, m))

\* the ISO dates from a to b, both included, one per day, ascending
DaysFromTo(a, b) ==
    [i \in 1..(DayOfYear(b) - DayOfYear(a) + 1) |->
        IsoFormat(DateOfOrdinal(a.year, DayOfYear(a) + i - 1))]

\* the range commands of the model whose two tokens strptime accepts, each with
\* the tokens it names
ValidRanges ==
    { << RangeText(p), p >> : p \in { q \in RangePairs : q[1] \in ValidTokens /\ q[2] \in ValidTokens } }
    \cup { << << "F", "E", "R", "M", "E", " ", "2", "8", "/", "0", "2", "A", "U", "1", "/", "3" >>,
              << << "2", "8", "/", "0", "2" >>, << "1", "/", "3" >> >> >>,
           << << "f", "e", "r", "m", eacute, " ", "d", "u", " ", "2", "8", "/", "0", "2", " ", "a", "u", " ", "0", "1", "/", "0", "3" >>,
              << << "2", "8", "/", "0", "2" >>, << "0", "1", "/", "0", "3" >> >> >> }

\* C5: FERME DU start AU end with start <= end appends to closed_dates exactly
\* the days start, start + 1, ..., end of the current year, each once, ascending,
\* both ends included, and nothing else.
C5_ClosedRangeInclusive ==
    [][\A r \in ValidRanges :
          LET a == TokenDate(r[2][1], today.year)
              b == TokenDate(r[2][2], today.year)
          IN  (OwnerCommand(r[1]) /\ DayOfYear(a) <= DayOfYear(b)) =>
                 restaurant_status'.closed_dates =
                     restaurant_status.closed_dates \o DaysFromTo(a, b)]_vars

\* FERME DU 28/02 AU 01/03 handled in a leap year, after an earlier closure:
\* three days were appended, the leap day among them
C5_Witness ==
    /\ response.op = "owner" /\ response.kind = "closed_range"
    /\ today.year = 2028
    /\ Len(restaurant_status.closed_dates) = 4
    /\ SubSeq(restaurant_status.closed_dates, 2, 4) =
          << IsoFormat(MkDate(2028, 2, 28)), IsoFormat(MkDate(2028, 2, 29)),
             IsoFormat(MkDate(2028, 3, 1)) >>

\* C6: for every token DD/MM that names a day of the current year (29/02 in a
\* leap year included), COMPLET DD/MM stores that day of the current year in
\* full_dates and FERME DD/MM appends it to closed_dates, also when the day is
\* before today.
C6_DateInCurrentYear ==
    [][\A t \in ValidTokens \cup LeapTokens : NamesDate(t, today.year) =>
          /\ OwnerCommand(COMPLET_SP \o t) =>
                restaurant_status'.full_dates =
                    Put(restaurant_status.full_dates, IsoFormat(TokenDate(t, today.year)), "journee")
          /\ OwnerCommand(FERMEA_SP \o t) =>
                restaurant_status'.closed_dates =
                    Append(restaurant_status.closed_dates, IsoFormat(TokenDate(t, today.year)))]_vars

\* t names no day of the year y
BadToken(t, y) == t \in InvalidTokens \/ (t \in LeapTokens /\ ~IsLeap(y))

\* C7: when the date token of COMPLET <x> or FERME <x>, or either token of
\* FERME DU <x> AU <y>, names no day of the current year, the reply is the
\* corrective format message and the whole record (updated_at included) is left
\* as it was; nothing is appended when only the end of a range is wrong.
C7_InvalidDateNoChange ==
    [][/\ \A t \in DateTokens : BadToken(t, today.year) =>
             /\ OwnerCommand(COMPLET_SP \o t) =>
                   (response'.kind = "full_date_error" /\ restaurant_status' = restaurant_status)
             /\ \A pre \in {FERMEA_SP, FERME_SP} :
                   (pre \o t \in OwnerMessages /\ OwnerCommand(pre \o t)) =>
                      (response'.kind = "closed_date_error" /\ restaurant_status' = restaurant_status)
       /\ \A p \in RangePairs :
             (OwnerCommand(RangeText(p)) /\ (BadToken(p[1], today.year) \/ BadToken(p[2], today.year))) =>
                (response'.kind = "closed_range_error" /\ restaurant_status' = restaurant_status)]_vars

\* a range was refused after an earlier closure had been recorded: the record
\* still holds that closure alone, with the time of that closure
C7_Witness ==
    /\ response.op = "owner" /\ response.kind = "closed_range_error"
    /\ now = 2
    /\ restaurant_status.updated_at = 1
    /\ Len(restaurant_status.closed_dates) = 1

KeywordTexts == { m \in MessageTexts : StartsWith(Upper(m), MESSAGE_SP) }

\* what follows the seven letters of the keyword, trimmed
BodyOf(m) == Strip(SliceFrom(m, 7))

\* C9: MESSAGE <text> stores <text> in its original letter case (it is not
\* empty), unless <text> is OFF in any letter case, which stores the empty
\* string; status, closed_dates and full_dates are left as they were.
C9_TempMessage ==
    [][\A m \in KeywordTexts : OwnerCommand(m) =>
          /\ BodyOf(m) # << >>
          /\ restaurant_status'.temp_message =
                (IF Upper(BodyOf(m)) = OFF THEN << >> ELSE BodyOf(m))
          /\ restaurant_status'.status = restaurant_status.status
          /\ restaurant_status'.closed_dates = restaurant_status.closed_dates
          /\ restaurant_status'.full_dates = restaurant_status.full_dates]_vars

\* MESSAGE Hi handled on a closed day: the mixed-case text is stored
C9_Witness ==
    /\ response.op = "owner" /\ response.kind = "message"
    /\ restaurant_status.temp_message = << "H", "i" >>
    /\ restaurant_status.status = "closed_today"

\* ------------------------------------------------------------------------
\* Properties of the webhook pipeline
\* ------------------------------------------------------------------------

\* the texts of the pipeline that are no command
PlainTexts ==
    { << "B", "o", "n", "j", "o", "u", "r" >>,
      << "U", "n", "e", " ", "T", "a", "b", "l", "e" >> }

\* t is the task of a text of the configured owner that is no command
OwnerPlainTask(t) ==
    /\ owner_phone # << >>
    /\ t.from = owner_phone
    /\ t.phone_number_id = PhoneNumberId
    /\ t.text \in PlainTexts

\* role and content of the turns of a conversation log
Turns(log) == [j \in 1..Len(log) |-> << log[j].role, log[j].content >>]

\* the log of the sender of t ("" when there is none yet)
LogOf(convs, t) == IF t.from \in DOMAIN convs THEN convs[t.from] ELSE << >>

C11_OnlyOwnerWrites ==
    [][restaurant_status' # restaurant_status =>
          \E i \in 1..Len(tasks) :
              /\ owner_phone # << >>
              /\ tasks[i].from = owner_phone
              /\ tasks[i].pc = "process_and_reply"
              /\ tasks'[i].pc # "process_and_reply"]_vars

\* a customer's FERME went through the whole customer path while an owner was
\* configured: it is stored as a user turn and the record was never written
C11_Witness ==
    /\ owner_phone = OwnerPhone
    /\ Len(tasks) = 1
    /\ tasks[1].from = CustomerPhone
    /\ tasks[1].text = FERMEA
    /\ tasks[1].pc = "done"
    /\ CustomerPhone \in DOMAIN conversations
    /\ Turns(conversations[CustomerPhone]) =
          << << "user", FERMEA >>, << "assistant", tasks[1].response >> >>
    /\ restaurant_status.status = "open"
    /\ restaurant_status.closed_dates = << >>
    /\ restaurant_status.updated_at = 0

\* the texts that start, once trimmed and upper-cased, with FERME and a space
FermePrefixed ==
    { m \in OwnerMessages :
        StartsWith(Upper(Strip(m)), FERMEA_SP) \/ StartsWith(Upper(Strip(m)), FERME_SP) }

\* the replies of the closed-date family
ClosedFamily ==
    { "closed_today", "closed_range", "closed_range_error", "closed_date", "closed_date_error" }

\* C12: the first directive that matches wins.  The exact phrases COMPLET CE
\* SOIR, COMPLET SOIR, COMPLET MIDI, COMPLET CE MIDI, FERME AUJOURD'HUI and bare
\* FERME are answered by their own branch, never by the date branches with a
\* format error; a text that starts with FERME and a space is answered by the
\* closed-date family only: it leaves full_dates and temp_message as they
\* were and never sets the status open.
C12_FirstMatchWins ==
    [][/\ \A m \in FullTonightTexts : OwnerCommand(m) => response'.kind = "full_tonight"
       /\ \A m \in FullLunchTexts : OwnerCommand(m) => response'.kind = "full_lunch"
       /\ \A m \in ClosedTodayTexts : OwnerCommand(m) => response'.kind = "closed_today"
       /\ \A m \in FermePrefixed : OwnerCommand(m) =>
             /\ response'.kind \in ClosedFamily
             /\ restaurant_status'.full_dates = restaurant_status.full_dates
             /\ restaurant_status'.temp_message = restaurant_status.temp_message
             /\ restaurant_status'.status \in {restaurant_status.status, "closed_today"}]_vars

\* COMPLET CE SOIR and then bare FERME were each answered by their own branch:
\* tonight is full, today is closed, and no format error was given
C12_Witness ==
    /\ response.op = "owner" /\ response.kind = "closed_today"
    /\ directive = "closed_today"
    /\ restaurant_status.status = "closed_today"
    /\ restaurant_status.closed_dates = << TodayStr >>
    /\ TodayStr \in DOMAIN restaurant_status.full_dates
    /\ restaurant_status.full_dates[TodayStr] = "soir"

\* what follows the FERME prefix of a text, trimmed
Remainder(m) == Strip(Remove(Remove(Upper(Strip(m)), FERMEA_SP), FERME_SP))

\* s cut at its first sep: what is before it and all that is after it
SplitOnce(s, sep) ==
    << SubSeq(s, 1, Find(s, sep) - 1), SubSeq(s, Find(s, sep) + Len(sep), Len(s)) >>

\* s without a leading DU, trimmed
StripLeadingDU(s) ==
    IF StartsWith(Strip(s), DU) THEN Strip(SliceFrom(Strip(s), Len(DU))) ELSE Strip(s)

\* the FERME texts whose remainder holds AU, the exact phrase FERME AUJOURD'HUI
\* (which its own branch answers first) left out
AuTexts == { m \in FermePrefixed \ ClosedTodayTexts : Contains(Remainder(m), AU) }

\* C13: a FERME text whose remainder holds AU is cut once, at the first AU; when
\* the left part (without a leading DU) or the whole right part is no DD/MM,
\* as when the right part holds a second AU, the reply is the format error of
\* the range and closed_dates is left as it was.
C13_SplitOnceAtAU ==
    [][\A m \in AuTexts :
          LET parts == SplitOnce(Remainder(m), AU)
          IN  (/\ OwnerCommand(m)
               /\ ~(Strptime(StripLeadingDU(parts[1])).ok /\ Strptime(Strip(parts[2])).ok)) =>
                 /\ response'.kind = "closed_range_error"
                 /\ restaurant_status'.closed_dates = restaurant_status.closed_dates]_vars

\* texts that read STATUS, AIDE, HELP or ? once trimmed and upper-cased
QueryTexts == { m \in OwnerMessages : Strip(Upper(m)) \in { STATUS, AIDE, HELP, QUESTION_MARK } }

\* C14: STATUS and AIDE / HELP / ? change nothing: the availability record
\* (updated_at included), the stats, the conversation logs and the bookings
\* log are the same after the command as before it
C14_QueriesDoNotMutate ==
    [][\A m \in QueryTexts :
          OwnerCommand(m) =>
            /\ restaurant_status' = restaurant_status
            /\ stats' = stats
            /\ conversations' = conversations
            /\ bookings' = bookings]_vars

\* STATUS has just been answered on a record that an earlier command had
\* changed: the temporary message and its stamp are still the earlier ones
C14_Witness ==
    /\ response.op = "owner" /\ response.kind = "status"
    /\ directive = "status"
    /\ restaurant_status.temp_message # << >>
    /\ restaurant_status.updated_at > 0
    /\ restaurant_status.updated_at < now

\* the four availability fields of the record
Availability(rs) == << rs.status, rs.temp_message, rs.closed_dates, rs.full_dates >>

\* C15: every step (owner command or dashboard write) that changes status,
\* temp_message, closed_dates or full_dates also sets updated_at to the time
\* of that write, so the record holds no change newer than its stamp
C15_MutationStampsUpdatedAt ==
    [][Availability(restaurant_status') # Availability(restaurant_status) =>
          /\ now' = now + 1
          /\ restaurant_status'.updated_at = now']_vars

\* an owner command and then a dashboard write have each changed the record,
\* and the stamp is the time of the second write
C15_Witness ==
    /\ response.op = "dashboard" /\ response.kind = "updated"
    /\ now = 2
    /\ restaurant_status.updated_at = 2
    /\ restaurant_status.status = "full_lunch"
    /\ restaurant_status.full_dates # << >>
    /\ restaurant_status.closed_dates # << >>

\* ------------------------------------------------------------------------
\* Properties of the projector
\* ------------------------------------------------------------------------
\* the prompt a BuildPrompt step leaves in the response
Prompt(resp) == resp.arg[2]

\* C16: when the status is full_tonight or full_lunch, today is in
\* closed_dates and today is no key of full_dates, the constraint block of the
\* prompt carries the closed-today sentence and not the full-tonight or
\* full-lunch one
C16_ClosedDatesOverrideQuickStatus ==
    [][(/\ BuildPrompt
        /\ restaurant_status.status \in {"full_tonight", "full_lunch"}
        /\ InList(TodayStr, restaurant_status.closed_dates)
        /\ TodayStr \notin DOMAIN restaurant_status.full_dates) =>
          Prompt(response').status_context.notice = "closed_dates"]_vars

\* a prompt was built today for a record whose status is full_lunch, with
\* today closed and not full
C16_Witness ==
    /\ response.op = "prompt"
    /\ response.arg[1] = TodayStr
    /\ restaurant_status.status = "full_lunch"
    /\ InList(TodayStr, restaurant_status.closed_dates)
    /\ TodayStr \notin DOMAIN restaurant_status.full_dates
    /\ Prompt(response).status_context.notice = "closed_dates"

\* C17: whenever today is a key of full_dates, the constraint of the prompt is
\* the full-today sentence with the stored period label, whatever the status
\* and even when today is in closed_dates; the closed-today and quick-status
\* sentences are absent
C17_FullDatesOverrideAll ==
    [][(BuildPrompt /\ TodayStr \in DOMAIN restaurant_status.full_dates) =>
          Prompt(response').status_context =
              [notice |-> "full_dates", period |-> restaurant_status.full_dates[TodayStr]]]_vars

\* a prompt was built today for a record that is closed_today, has today in
\* closed_dates and has today full for the evening
C17_Witness ==
    /\ response.op = "prompt"
    /\ response.arg[1] = TodayStr
    /\ restaurant_status.status = "closed_today"
    /\ InList(TodayStr, restaurant_status.closed_dates)
    /\ TodayStr \in DOMAIN restaurant_status.full_dates
    /\ Prompt(response).status_context = [notice |-> "full_dates", period |-> "soir"]

\* the date an ISO string YYYY-MM-DD names
IsoDate(s) ==
    MkDate(1000 * DigitVal(s[1]) + 100 * DigitVal(s[2]) + 10 * DigitVal(s[3]) + DigitVal(s[4]),
           10 * DigitVal(s[6]) + DigitVal(s[7]),
           10 * DigitVal(s[9]) + DigitVal(s[10]))

\* the day s names comes after the day tdy
LaterDay(s, tdy) == DateLE(tdy, IsoDate(s)) /\ IsoDate(s) # tdy

\* the record gives the prompt a primary constraint on day tdy
HasPrimary(rs, tdy) ==
    \/ rs.status \in {"full_tonight", "full_lunch", "closed_today"}
    \/ InList(IsoFormat(tdy), rs.closed_dates)
    \/ IsoFormat(tdy) \in DOMAIN rs.full_dates

\* C18: the note of future closures lists exactly the closed_dates entries
\* that lie strictly after today, in stored order (none when no entry is
\* later), and it comes with the primary constraint, not in its place
C18_FutureClosedNote ==
    [][BuildPrompt =>
          /\ Prompt(response').future_closed =
                 SelectSeq(restaurant_status.closed_dates, LAMBDA d : LaterDay(d, today))
          /\ HasPrimary(restaurant_status, today) =>
                 Prompt(response').status_context.notice # ""]_vars

\* a prompt was built today for a closure running from today to tomorrow:
\* the primary constraint is the closed-today sentence and the note lists
\* tomorrow only
C18_Witness ==
    /\ response.op = "prompt"
    /\ response.arg[1] = TodayStr
    /\ restaurant_status.closed_dates = << TodayStr, IsoFormat(NextDate(today)) >>
    /\ Prompt(response).status_context.notice = "closed_dates"
    /\ Prompt(response).future_closed = << IsoFormat(NextDate(today)) >>

\* C19: the prompt carries the temporary-message directive, with the stored
\* text, exactly when temp_message is not empty, whatever the status,
\* closed_dates and full_dates are
C19_TempMessageIffSet ==
    [][BuildPrompt =>
          /\ (Prompt(response').temp_msg # << >>) <=> (restaurant_status.temp_message # << >>)
          /\ Prompt(response').temp_msg = restaurant_status.temp_message]_vars

\* a prompt was built today for a record that has a temporary message and is
\* full tonight: the prompt has both the full-today sentence and the message
C19_Witness ==
    /\ response.op = "prompt"
    /\ response.arg[1] = TodayStr
    /\ restaurant_status.temp_message = << "H", "i" >>
    /\ restaurant_status.status = "full_tonight"
    /\ Prompt(response).status_context.notice = "full_dates"
    /\ Prompt(response).temp_msg = << "H", "i" >>

\* C20: COMPLET DD/MM for a day d of the current year is answered with d as
\* DD/MM/YYYY and stores d as full for the journee; from then on no step takes
\* the entry away (OUVERT included), only COMPLET CE SOIR / MIDI handled on
\* day d gives it another label; and every prompt built on day d while the
\* entry is journee carries the full-today sentence with the period journee
C20_FullDateEndToEnd ==
    [][/\ \A t \in ValidTokens \cup LeapTokens :
             (OwnerCommand(COMPLET_SP \o t) /\ NamesDate(t, today.year)) =>
                /\ response'.kind = "full_date"
                /\ response'.arg = StrfDMY(TokenDate(t, today.year))
                /\ IsoFormat(TokenDate(t, today.year)) \in DOMAIN restaurant_status'.full_dates
                /\ restaurant_status'.full_dates[IsoFormat(TokenDate(t, today.year))] = "journee"
       /\ \A k \in DOMAIN restaurant_status.full_dates :
             restaurant_status.full_dates[k] = "journee" =>
                /\ k \in DOMAIN restaurant_status'.full_dates
                /\ restaurant_status'.full_dates[k] # "journee" =>
                      (k = TodayStr /\ directive' \in {"full_tonight", "full_lunch"})
       /\ (/\ BuildPrompt
           /\ TodayStr \in DOMAIN restaurant_status.full_dates
           /\ restaurant_status.full_dates[TodayStr] = "journee") =>
             Prompt(response').status_context = [notice |-> "full_dates", period |-> "journee"]]_vars

\* the record says that COMPLET CE SOIR, COMPLET MIDI or FERME AUJOURD'HUI was
\* handled on day tdy and still stands
QuickToday(rs, tdy) ==
    \/ /\ rs.status = "full_tonight"
       /\ IsoFormat(tdy) \in DOMAIN rs.full_dates
       /\ rs.full_dates[IsoFormat(tdy)] = "soir"
    \/ /\ rs.status = "full_lunch"
       /\ IsoFormat(tdy) \in DOMAIN rs.full_dates
       /\ rs.full_dates[IsoFormat(tdy)] = "midi"
    \/ /\ rs.status = "closed_today"
       /\ rs.closed_dates # << >>
       /\ rs.closed_dates[Len(rs.closed_dates)] = IsoFormat(tdy)

\* C21: when OUVERT follows COMPLET CE SOIR, COMPLET MIDI or FERME AUJOURD'HUI
\* of the same day, the prompt built next on that day has no full-today and no
\* closed-today constraint
C21_OpenResumesNormal ==
    [][\A m \in OpenTexts :
          (OwnerCommand(m) /\ QuickToday(restaurant_status, today)) =>
             BuildSystemPrompt(restaurant_status', today').status_context.notice = ""]_vars

\* the sentences of the prompt that come from the quick status alone
QuickNotices == {"full_tonight", "full_lunch", "closed_today"}

\* C22: a quick status set on one day is not reported as the day's condition
\* on a later day: once the calendar day has changed, the prompt carries no
\* full-tonight, full-lunch or closed-today sentence of the status set before
C22_QuickStatusEndsWithDay ==
    [][Midnight =>
          BuildSystemPrompt(restaurant_status', today').status_context.notice \notin QuickNotices]_vars

\* C23: status is always one of open, full_tonight, full_lunch, closed_today
C23_StatusInFourValues ==
    restaurant_status.status \in {"open", "full_tonight", "full_lunch", "closed_today"}

\* C24: no step (owner command, dashboard write, prompt, change of day) takes
\* an entry out of closed_dates (the old list is a prefix of the new one) or a
\* key out of full_dates; the entries of past days stay
C24_NoPruning ==
    [][/\ IsPrefix(restaurant_status.closed_dates, restaurant_status'.closed_dates)
       /\ DOMAIN restaurant_status.full_dates \subseteq DOMAIN restaurant_status'.full_dates]_vars

\* the day has changed, a full date was stored on the new day and a prompt was
\* built: yesterday's entry of full_dates is still there
C24_Witness ==
    /\ response.op = "prompt"
    /\ response.arg[1] = TodayStr
    /\ now = 2
    /\ directive = "full_date"
    /\ \E s \in StartDates :
          /\ today = NextDate(s)
          /\ DOMAIN restaurant_status.full_dates = { IsoFormat(s), TodayStr }
          /\ restaurant_status.full_dates[IsoFormat(s)] = "soir"

\* ------------------------------------------------------------------------
\* The dashboard writes against the owner commands
\* ------------------------------------------------------------------------
\* C25: the dashboard write of status closed_today also appends today to
\* closed_dates; status and closed_dates are then what the owner's FERME
\* AUJOURD'HUI makes of the same record
C25_DashboardClosedTodayAsOwner ==
    [][DashboardStatus(TRUE, [status |-> "closed_today"]) =>
          /\ restaurant_status'.status = "closed_today"
          /\ restaurant_status'.closed_dates = Append(restaurant_status.closed_dates, TodayStr)
          /\ restaurant_status'.status =
                 SetClosedToday(restaurant_status, stats, today, now + 1).rs.status
          /\ restaurant_status'.closed_dates =
                 SetClosedToday(restaurant_status, stats, today, now + 1).rs.closed_dates]_vars

\* the dashboard closed today after the owner had: today is stored twice
C25_Witness ==
    /\ response.op = "dashboard" /\ response.kind = "updated"
    /\ directive = "closed_today"
    /\ restaurant_status.status = "closed_today"
    /\ restaurant_status.closed_dates = << TodayStr, TodayStr >>
    /\ restaurant_status.updated_at = 2

\* the record the owner command that sets status v makes of rs
OwnerQuick(v, rs, st, tdy, nw) ==
    CASE v = "full_tonight" -> SetFullToday(rs, st, tdy, nw, "full_tonight", "soir").rs
      [] v = "full_lunch"   -> SetFullToday(rs, st, tdy, nw, "full_lunch", "midi").rs
      [] v = "closed_today" -> SetClosedToday(rs, st, tdy, nw).rs
      [] OTHER              -> SetOpen(rs, st, nw).rs

\* C26: the dashboard write of status full_tonight, full_lunch or open leaves
\* the record as the owner's COMPLET CE SOIR, COMPLET MIDI or OUVERT leaves the
\* same record: status, and full_dates with today's entry soir / midi
C26_DashboardStatusAsOwner ==
    [][\A v \in {"full_tonight", "full_lunch", "open"} :
          DashboardStatus(TRUE, [status |-> v]) =>
             restaurant_status' = OwnerQuick(v, restaurant_status, stats, today, now + 1)]_vars

\* C27: the dashboard add-date write of type closed appends d to closed_dates
\* as FERME <d> does, also when d is already there; of type full it sets
\* full_dates[d] to journee as COMPLET <d> does; neither changes status
C27_DashboardDateAsOwner ==
    [][\A d \in DashboardDates :
          /\ DashboardClosed(TRUE, [date |-> d, type |-> "closed"]) =>
                /\ restaurant_status'.closed_dates = Append(restaurant_status.closed_dates, d)
                /\ restaurant_status'.full_dates = restaurant_status.full_dates
                /\ restaurant_status'.status = restaurant_status.status
          /\ DashboardClosed(TRUE, [date |-> d, type |-> "full"]) =>
                /\ restaurant_status'.full_dates = Put(restaurant_status.full_dates, d, "journee")
                /\ restaurant_status'.closed_dates = restaurant_status.closed_dates
                /\ restaurant_status'.status = restaurant_status.status]_vars

\* ------------------------------------------------------------------------
\* Properties of concurrent requests
\* ------------------------------------------------------------------------
\* the days FERME DU 28/02 AU 01/03 closes in the year y
WholeRange(y) ==
    IF IsLeap(y)
    THEN << IsoFormat(MkDate(y, 2, 28)), IsoFormat(MkDate(y, 2, 29)), IsoFormat(MkDate(y, 3, 1)) >>
    ELSE << IsoFormat(MkDate(y, 2, 28)), IsoFormat(MkDate(y, 3, 1)) >>

\* what a step has appended to closed_dates
Appended(rs, rs2) == SubSeq(rs2.closed_dates, Len(rs.closed_dates) + 1, Len(rs2.closed_dates))

\* C28: with requests interleaved at their awaits, every step that changes the
\* availability is one whole write: it carries the stamp of that write, what it
\* appends to closed_dates is nothing, today together with status closed_today,
\* or the complete range; and a prompt built by another request never shows
\* status closed_today without today in closed_dates
C28_WritesAreAtomic ==
    [][/\ Availability(restaurant_status') # Availability(restaurant_status) =>
             /\ now' = now + 1
             /\ restaurant_status'.updated_at = now'
             /\ IsPrefix(restaurant_status.closed_dates, restaurant_status'.closed_dates)
             /\ Appended(restaurant_status, restaurant_status') \in
                    { << >>, << TodayStr >>, WholeRange(today.year) }
             /\ Appended(restaurant_status, restaurant_status') = << TodayStr >> =>
                    restaurant_status'.status = "closed_today"
             /\ (restaurant_status'.status = "closed_today"
                 /\ restaurant_status.status # "closed_today") =>
                    Appended(restaurant_status, restaurant_status') = << TodayStr >>
       /\ \A i \in 1..Len(tasks) :
             (tasks[i].pc = "process_and_reply" /\ tasks'[i].pc = "ask_claude") =>
                /\ restaurant_status.status = "closed_today" =>
                       InList(TodayStr, restaurant_status.closed_dates)
                /\ tasks'[i].system_prompt.status_context.notice # "closed_today"]_vars

\* the dashboard's request came first and waited for its body while the
\* owner's range was written; the dashboard's write came after it
C28_Witness ==
    /\ Len(tasks) = 2
    /\ tasks[1].pc = "done" /\ tasks[2].pc = "done"
    /\ "endpoint" \in DOMAIN tasks[1] /\ tasks[1].endpoint = "status"
    /\ "from" \in DOMAIN tasks[2] /\ tasks[2].from = OwnerPhone
    /\ restaurant_status.status = "closed_today"
    /\ restaurant_status.closed_dates = WholeRange(today.year) \o << TodayStr >>
    /\ restaurant_status.updated_at = 2

\* C29: the webhook handler returns its acknowledgement with the event's work
\* only queued: in the step that accepts an event nothing is asked of the
\* model, nothing is sent and nothing is stored, so the AI call and the sends
\* of an event come after its acknowledgement; and whatever the earlier events
\* are doing (waiting for the AI, waiting for a send, ended after a failed
\* send), a further event is accepted
C29_AckBeforeProcessing ==
    [][/\ Len(tasks') > Len(tasks) =>
             /\ SubSeq(tasks', 1, Len(tasks)) = tasks
             /\ tasks'[Len(tasks')].pc \in {"mark_as_read", "process_and_reply", "request_json"}
             /\ "out" \in DOMAIN tasks'[Len(tasks')] => tasks'[Len(tasks')].out = << >>
             /\ UNCHANGED << restaurant_status, stats, conversations, bookings, now >>
       /\ Len(tasks) < MaxClients =>
             \A ev \in ConcurrentEvents : ENABLED ReceiveConcurrent(ev)]_vars

\* the first event still waits for the AI; the second, accepted after it, has
\* been answered, though its send failed
C29_Witness ==
    /\ Len(tasks) = 2
    /\ tasks[1].pc = "ask_claude"
    /\ tasks[2].pc = "done"
    /\ "from" \in DOMAIN tasks[2] /\ tasks[2].from = CustomerPhone
    /\ Len(tasks[2].out) = 1
    /\ tasks[2].out[1].result = "failed"

\* the sends of a task that carry a reply to the customer
ReplySends(t) == { j \in 1..Len(t.out) : t.out[j].kind = "reply" }

\* C30: when the AI call fails, the turn still completes: the apology is the
\* reply, the customer's message and then the apology are stored as the last
\* two turns, the apology is handed once to send_whatsapp_message, and the
\* task never returns to the AI call nor sends the reply a second time
C30_ApologyOnAiFailure ==
    [][\A i \in 1..Len(tasks) :
          /\ AskClaude(i, FALSE) =>
                /\ tasks'[i].response = Apology
                /\ tasks'[i].pc = "send_reply"
                /\ tasks'[i].out = Append(tasks[i].out, Outbound("reply", tasks[i].from, Apology))
                /\ LET log == conversations'[tasks[i].from]
                   IN  /\ Len(log) >= 2
                       /\ log[Len(log) - 1].role = "user"
                       /\ log[Len(log) - 1].content = tasks[i].text
                       /\ log[Len(log)].role = "assistant"
                       /\ log[Len(log)].content = Apology
          /\ tasks[i].response = Apology =>
                /\ tasks'[i].pc # "ask_claude"
                /\ ReplySends(tasks'[i]) = ReplySends(tasks[i])
                /\ Cardinality(ReplySends(tasks[i])) = 1]_vars

\* the AI call of a customer's message failed and the task has ended: the
\* apology was sent once and is the assistant turn after the message
C30_Witness ==
    /\ Len(tasks) = 1
    /\ tasks[1].pc = "done"
    /\ tasks[1].from = CustomerPhone
    /\ tasks[1].response = Apology
    /\ Len(tasks[1].out) = 1
    /\ tasks[1].out[1] = [kind |-> "reply", to |-> CustomerPhone, body |-> Apology, result |-> "sent"]
    /\ Len(conversations[CustomerPhone]) = 2
    /\ conversations[CustomerPhone][1].role = "user"
    /\ conversations[CustomerPhone][2].content = Apology

\* the sends of kind k a task has handed to send_whatsapp_message
SendsOfKind(t, k) == { j \in 1..Len(t.out) : t.out[j].kind = k }

\* C31: a failed send (read receipt, command reply, reply, notification) is
\* swallowed: the task goes on as after a successful send (the lead is
\* recorded, the notification is handed over, the booking is counted, the
\* task ends and does not fail), the failed send stays the only one of its
\* kind, and nothing but its result differs
C31_FailedSendSwallowed ==
    [][\A i \in 1..Len(tasks) :
          /\ MarkAsRead(i, FALSE) => tasks'[i].pc = "process_and_reply"
          /\ CommandReplySent(i, FALSE) =>
                /\ tasks'[i].pc = "done"
                /\ tasks'[i].out[Len(tasks'[i].out)].result = "failed"
          /\ ReplySent(i, FALSE) =>
                /\ tasks'[i].out[Len(tasks[i].out)].result = "failed"
                /\ conversations' = conversations /\ stats' = stats
                /\ IF owner_phone # << >> /\ IsBooking(tasks[i].text)
                   THEN /\ tasks'[i].pc = "send_notification"
                        /\ bookings' = Append(bookings, Lead(tasks[i].from, tasks[i].text, now'))
                        /\ Cardinality(SendsOfKind(tasks'[i], "notification")) = 1
                   ELSE /\ tasks'[i].pc = "done"
                        /\ bookings' = bookings
          /\ NotificationSent(i, FALSE) =>
                /\ tasks'[i].pc = "done"
                /\ tasks'[i].out[Len(tasks'[i].out)].result = "failed"
                /\ stats' = TrackStats(stats, today, TRUE)
          /\ \A k \in {"command", "reply", "notification"} :
                Cardinality(SendsOfKind(tasks'[i], k)) <= 1]_vars

\* a booking request went through although the reply and the notification both
\* failed to send: the turns are stored, the lead is recorded, the booking is
\* counted
C31_Witness ==
    /\ Len(tasks) = 1
    /\ tasks[1].pc = "done"
    /\ Len(tasks[1].out) = 2
    /\ tasks[1].out[1].kind = "reply" /\ tasks[1].out[1].result = "failed"
    /\ tasks[1].out[2].kind = "notification" /\ tasks[1].out[2].result = "failed"
    /\ Len(conversations[tasks[1].from]) = 2
    /\ Len(bookings) = 1
    /\ stats.bookings_today = 1

\* C32: an event for a number that is not in the registry is dropped: its task
\* starts at process_and_reply (no read receipt), and the step that runs it
\* ends it with nothing sent, nothing asked of the model, no conversation
\* created, and record, stats and bookings as they were
C32_UnknownChannelDropped ==
    [][\A i \in 1..Len(tasks') :
          tasks'[i].phone_number_id # PhoneNumberId =>
             /\ tasks'[i].pc \in {"process_and_reply", "done"}
             /\ tasks'[i].out = << >>
             /\ tasks'[i].claude_messages = << >>
             /\ tasks'[i].response = << >>
             /\ (i <= Len(tasks) /\ tasks'[i] # tasks[i]) =>
                   /\ tasks'[i].pc = "done"
                   /\ UNCHANGED << restaurant_status, stats, conversations, bookings, now >>]_vars

\* the event for the unknown number has been processed: nothing was sent and
\* nothing was stored
C32_Witness ==
    /\ Len(tasks) = 1
    /\ tasks[1].phone_number_id = "unknown"
    /\ tasks[1].pc = "done"
    /\ tasks[1].out = << >>
    /\ conversations = << >>
    /\ stats.messages_today = 0
    /\ bookings = << >>

\* ------------------------------------------------------------------------
\* Properties of the conversation log, the stats and the bookings
\* ------------------------------------------------------------------------
\* the log of a customer, empty when none was created
LogFor(convs, c) == IF c \in DOMAIN convs THEN convs[c] ELSE << >>

\* C33: every log holds at most 20 turns; a save puts the new turn last and,
\* when the log was full, drops the oldest one and nothing else, so the log is
\* the most recent turns in insertion order; the logs of the other customers
\* are untouched
C33_LogKeepsLastTwenty ==
    [][\A c \in {CustomerPhone, OwnerPhone} :
          SaveTurn(c) =>
             LET old == LogFor(conversations, c)
                 new == conversations'[c]
             IN  /\ Len(new) <= 20
                 /\ Len(new) = (IF Len(old) < 20 THEN Len(old) + 1 ELSE 20)
                 /\ new[Len(new)].timestamp = now'
                 /\ SubSeq(new, 1, Len(new) - 1) =
                       (IF Len(old) < 20 THEN old ELSE SubSeq(old, 2, 20))
                 /\ \A j \in 1..(Len(new) - 1) : new[j].timestamp < new[j + 1].timestamp
                 /\ \A o \in {CustomerPhone, OwnerPhone} \ {c} :
                       LogFor(conversations', o) = LogFor(conversations, o)]_vars

\* 22 turns were saved, 21 of them for one customer: that log holds the last
\* 20 of them and has lost its first, the other customer's turn is still there
C33_Witness ==
    /\ now = 22
    /\ CustomerPhone \in DOMAIN conversations /\ OwnerPhone \in DOMAIN conversations
    /\ Len(conversations[CustomerPhone]) = 20
    /\ Len(conversations[OwnerPhone]) = 1
    /\ conversations[OwnerPhone][1].timestamp = 1
    /\ conversations[CustomerPhone][1].timestamp = 3
    /\ conversations[CustomerPhone][20].timestamp = 22

\* the stored day is not the current one
NewDay == stats.last_reset # IsoFormat(today)

\* C34: the first access to the counters after the day changed, a tracked
\* message or the STATS command, resets the messages, the bookings and the
\* languages before counting or reporting, and stores the current day
C34_FirstAccessResets ==
    [][/\ (OwnerCommand(STATS) /\ NewDay) =>
             /\ stats' = [messages_today |-> 0, bookings_today |-> 0,
                          languages |-> << >>, last_reset |-> IsoFormat(today)]
             /\ response'.arg = << 0, 0, << >>, ActiveConversations >>
       /\ \A is_booking \in BOOLEAN :
             (TrackMessage(is_booking) /\ NewDay) =>
                stats' = [messages_today |-> 1,
                          bookings_today |-> IF is_booking THEN 1 ELSE 0,
                          languages |-> Put(<< >>, "fr", 1),
                          last_reset |-> IsoFormat(today)]]_vars

\* the reply to a text that matches the booking keywords has been sent
BookingReplied(i, ok) == ReplySent(i, ok) /\ IsBooking(tasks[i].text)

\* C35: every processed customer message that matches the booking keywords
\* appends exactly one lead to bookings, nothing else appends one, and no
\* step removes or changes an entry
C35_OneLeadPerBookingMessage ==
    [][/\ Len(bookings) <= Len(bookings')
       /\ SubSeq(bookings', 1, Len(bookings)) = bookings
       /\ \A i \in 1..Len(tasks), ok \in BOOLEAN :
             BookingReplied(i, ok) =>
                bookings' = Append(bookings, Lead(tasks[i].from, tasks[i].text, now'))
       /\ (\A i \in 1..Len(tasks), ok \in BOOLEAN : ~BookingReplied(i, ok)) =>
             bookings' = bookings]_vars

\* C36: FERME DU start AU end with start after end appends no date to
\* closed_dates, leaves status (and full_dates and temp_message) as they were,
\* and answers with the confirmation of a recorded closure, not with an error
C36_BackwardRangeAppendsNothing ==
    [][\A r \in ValidRanges :
          LET a == TokenDate(r[2][1], today.year)
              b == TokenDate(r[2][2], today.year)
          IN  (OwnerCommand(r[1]) /\ DayOfYear(a) > DayOfYear(b)) =>
                 /\ restaurant_status'.closed_dates = restaurant_status.closed_dates
                 /\ restaurant_status'.status = restaurant_status.status
                 /\ restaurant_status'.full_dates = restaurant_status.full_dates
                 /\ restaurant_status'.temp_message = restaurant_status.temp_message
                 /\ response'.kind = "closed_range"
                 /\ response'.exc = "None"
                 /\ response'.arg = << StrfDM(a), StrfDM(b) >>]_vars

\* FERME DU 01/03 AU 28/02 was confirmed after an earlier closure of today:
\* the list still holds that one day and the status is still closed_today
C36_Witness ==
    /\ response.op = "owner" /\ response.kind = "closed_range"
    /\ response.arg = << << "0", "1", "/", "0", "3" >>, << "2", "8", "/", "0", "2" >> >>
    /\ restaurant_status.status = "closed_today"
    /\ restaurant_status.closed_dates = << IsoFormat(today) >>

\* the answer is 403 without a body, and what the API serves and writes is
\* as it was
Served403 ==
    /\ response' = Forbidden
    /\ UNCHANGED << restaurant_status, stats, conversations, bookings, tasks >>

\* C37: every request of the dashboard API (/api/dashboard, /api/status,
\* /api/message, /api/closed, /api/conversations, /api/conversation/{phone},
\* /api/bookings) whose key is not the configured secret is answered 403 with
\* no data, and leaves the state as it was
C37_WrongKeyForbidden ==
    [][\A key \in Keys \ {DashboardSecret} :
          /\ DashboardData(key) => Served403
          /\ ListConversations(key) => Served403
          /\ \A phone \in {CustomerPhone, OwnerPhone} :
                GetConversationDetail(phone, key) => Served403
          /\ ListBookings(key) => Served403
          /\ \A call \in WriteCalls : DashboardPost(key, call) => Served403]_vars

\* a request was refused while a conversation, a booking lead and a changed
\* record were there to be served
C37_Witness ==
    /\ response = Forbidden
    /\ CustomerPhone \in DOMAIN conversations
    /\ Len(conversations[CustomerPhone]) = 2
    /\ Len(bookings) = 1
    /\ restaurant_status.status = "closed_today"

\* the owner texts whose trimmed upper-cased form starts with MESSAGE and a
\* space, and what follows the keyword in the trimmed text, trimmed
TrimmedKeywordTexts == { m \in MessageTexts : StartsWith(Upper(Strip(m)), MESSAGE_SP) }
TextAfterKeyword(m) == Strip(SliceFrom(Strip(m), 7))

\* C38: for every owner message whose trimmed upper-cased form starts with
\* MESSAGE and a space, also one that arrives with leading white space, the
\* stored temp_message is the original-case text after the keyword, trimmed
\* (OFF, which clears the message, apart)
C38_TempMessageAfterKeyword ==
    [][\A m \in TrimmedKeywordTexts :
          (OwnerCommand(m) /\ Upper(TextAfterKeyword(m)) # OFF) =>
             restaurant_status'.temp_message = TextAfterKeyword(m)]_vars

\* user, assistant, user, ...: no two consecutive turns of one role
Alternates(turns) == \A j \in 1..(Len(turns) - 1) : turns[j].role # turns[j + 1].role

\* the tasks of process_and_reply that are at their await of ask_claude
Asking == { i \in 1..Len(tasks) : "from" \in DOMAIN tasks[i] /\ tasks[i].pc = "ask_claude" }

\* C39: whatever the interleaving of the tasks, at every point where another
\* task can run every conversation log has even length, starts with a user
\* turn and alternates, the turns handed to the model alternate too, and the
\* customer's text is stored with the reply made for it right behind it
C39_ExchangeStoredTogether ==
    /\ [](/\ \A c \in DOMAIN conversations :
                /\ Len(conversations[c]) % 2 = 0
                /\ Alternates(conversations[c])
                /\ conversations[c] # << >> => conversations[c][1].role = "user"
          /\ \A i \in Asking :
                /\ Alternates(tasks[i].claude_messages)
                /\ tasks[i].claude_messages[Len(tasks[i].claude_messages)].role = "user")
    /\ [][\A i \in Asking : \A ok \in BOOLEAN :
             AskClaude(i, ok) =>
                LET new == conversations'[tasks[i].from]
                IN  /\ Len(new) = Len(conversations[tasks[i].from]) + 2
                    /\ new[Len(new) - 1].role = "user"
                    /\ new[Len(new) - 1].content = tasks[i].text
                    /\ new[Len(new)].role = "assistant"
                    /\ new[Len(new)].content = tasks'[i].response]_vars

\* two messages of one customer were in flight at once (the second was handed
\* to the model with no history) and both exchanges are stored
C39_Witness ==
    /\ Len(tasks) = 2
    /\ \A i \in 1..2 : "from" \in DOMAIN tasks[i] /\ tasks[i].from = CustomerPhone
                       /\ tasks[i].pc = "done" /\ Len(tasks[i].claude_messages) = 1
    /\ Len(conversations[CustomerPhone]) = 4

\* C40: processing one customer message, a booking request or not, adds
\* exactly 1 to messages_today: the count goes up by one when the exchange is
\* tracked and by nothing in the rest of the processing (the day being the
\* stored one)
C40_MessageCountedOnce ==
    [][\A i \in 1..Len(tasks), ok \in BOOLEAN :
          /\ (AskClaude(i, ok) /\ ~NewDay) =>
                stats'.messages_today = stats.messages_today + 1
          /\ ((ReplySent(i, ok) \/ NotificationSent(i, ok)) /\ ~NewDay) =>
                stats'.messages_today = stats.messages_today]_vars

====
